---- MODULE Spec2Model ----
(***************************************************************************)
(* Model of the AI appointment booking agent: the dialogue state machine   *)
(* (app/agent), the in-memory and Google calendar backends (app/calendar), *)
(* the rule-based parsers (app/utils/date_parser.py) and the validators    *)
(* (app/utils/validators.py).                                              *)
(*                                                                         *)
(* Instants are integer minutes counted from 00:00 of the day the process  *)
(* was started ("today", day 0).  A Python Optional is a tuple: <<>> is    *)
(* None and <<v>> is the value v.                                          *)
(***************************************************************************)
EXTENDS Integers, Sequences, FiniteSets, TLC

VARIABLES
    todayWd,        \* weekday() of today, 0 = Monday .. 6 = Sunday
    use_real,       \* USE_REAL_CALENDAR: TRUE selects google_calendar
    mock_events,    \* MockCalendar.events, in insertion order
    google_service, \* GoogleCalendar.service is not None
    google_events,  \* the events held by the remote Google calendar
    sessions,       \* ConversationGraph.sessions: session id -> AgentState
    turn,           \* what the last process_message call did and returned
    turns,          \* number of requests served so far that may change state
    faults,         \* number of remote requests that failed so far
    probe,          \* the last direct call of a backend or helper function
    client,         \* ConversationNodes.client is not None (OPENAI_API_KEY is set)
    now,            \* datetime.now()
    host            \* process_message calls in progress when the host runs them
                    \* in threads, and the AgentState objects they refer to

vars == <<todayWd, use_real, mock_events, google_service, google_events,
          sessions, turn, turns, faults, probe, client, now, host>>

-----------------------------------------------------------------------------
(* Bounds of the model *)

\* process_message calls explored per behaviour
MaxTurns == 3
\* process_message calls explored per behaviour when the OpenAI
\* collaborators are configured
MaxTurnsAI == 2
\* failing remote requests explored per behaviour
MaxFaults == 1
\* last day (counted from today) a direct availability query may name
MaxDay == 3

-----------------------------------------------------------------------------
(* Python values *)

None == <<>>
Some(v) == <<v>>
IsNone(x) == x = <<>>
Val(x) == x[1]

\* minutes in a day, as datetime arithmetic has it
DayMinutes == 1440

\* datetime.combine(today + timedelta(days=day), time(hh, mm))
At(day, hh, mm) == day * DayMinutes + hh * 60 + mm

\* datetime.date(): the day of an instant
DateOf(t) == t \div DayMinutes

\* date.weekday()
Weekday(day) == (todayWd + day) % 7

\* time of day of an instant, in minutes
TimeOfDay(t) == t % DayMinutes

-----------------------------------------------------------------------------
(* schemas.py *)

TimeSlot(s, e, d) == [start_time |-> s, end_time |-> e, duration_minutes |-> d]

CalendarEvent(id, title, s, e) ==
    [id |-> id, title |-> title, start_time |-> s, end_time |-> e]

\* BookingResponse; error_code and event_details are no fields of the model
\* class and pydantic drops them
BookingResponse(ok, msg, id) == [success |-> ok, message |-> msg, event_id |-> id]

-----------------------------------------------------------------------------
(* mock_calendar.py *)

BusinessOpenHour == 9
BusinessCloseHour == 18
SlotStep == 30
FirstWeekendDay == 5

\* MockCalendar._generate_mock_events: four events on the next three days
generate_mock_events ==
    << CalendarEvent(<<"mock_event", 0>>, "Team Meeting",   At(1, 10, 0), At(1, 11, 0)),
       CalendarEvent(<<"mock_event", 1>>, "Client Call",    At(1, 14, 0), At(1, 15, 0)),
       CalendarEvent(<<"mock_event", 2>>, "Lunch Break",    At(2, 12, 0), At(2, 13, 0)),
       CalendarEvent(<<"mock_event", 3>>, "Product Review", At(3, 9, 0),  At(3, 10, 30)) >>

\* the while loop of _generate_day_slots
RECURSIVE day_slots_loop(_, _, _)
day_slots_loop(current_time, end_datetime, duration_minutes) ==
    IF current_time + duration_minutes <= end_datetime
    THEN <<TimeSlot(current_time, current_time + duration_minutes, duration_minutes)>>
         \o day_slots_loop(current_time + SlotStep, end_datetime, duration_minutes)
    ELSE <<>>

\* MockCalendar._generate_day_slots / GoogleCalendar._generate_day_slots
generate_day_slots(day, duration_minutes) ==
    day_slots_loop(At(day, BusinessOpenHour, 0), At(day, BusinessCloseHour, 0),
                   duration_minutes)

SlotConflictsInsideOnly(slot, event) ==
    slot.start_time >= event.start_time /\ slot.end_time <= event.end_time

\* the overlap test of _filter_conflicting_slots
SlotConflicts(slot, event) ==
    slot.start_time < event.end_time /\ slot.end_time > event.start_time

\* MockCalendar._filter_conflicting_slots
Mock_filter_conflicting_slots(events, slots) ==
    SelectSeq(slots, LAMBDA slot :
        ~ \E i \in 1..Len(events) : SlotConflicts(slot, events[i]))

IsWeekendSundayOnly(day) == Weekday(day) >= FirstWeekendDay + 1

\* current_date.weekday() >= 5
IsWeekend(day) == Weekday(day) >= FirstWeekendDay

\* the while loop of MockCalendar.get_availability
RECURSIVE Mock_days_loop(_, _, _, _)
Mock_days_loop(events, current_date, end_date_only, duration_minutes) ==
    IF current_date <= end_date_only
    THEN IF IsWeekend(current_date)
         THEN Mock_days_loop(events, current_date + 1, end_date_only, duration_minutes)
         ELSE Mock_filter_conflicting_slots(events,
                    generate_day_slots(current_date, duration_minutes))
              \o Mock_days_loop(events, current_date + 1, end_date_only, duration_minutes)
    ELSE <<>>

\* MockCalendar.get_availability: the available_slots of the response
Mock_get_availability(events, start_date, end_date, duration_minutes) ==
    Mock_days_loop(events, DateOf(start_date), DateOf(end_date), duration_minutes)

\* MockCalendar.book_appointment: the response and the events afterwards
Mock_book_appointment(events, title, start_time, end_time) ==
    IF start_time >= end_time
    THEN [response |-> BookingResponse(FALSE, "Start time must be before end time", None),
          events |-> events]
    ELSE IF Mock_get_availability(events, start_time, end_time,
                                  end_time - start_time) = <<>>
    THEN [response |-> BookingResponse(FALSE, "The requested time slot is not available", None),
          events |-> events]
    ELSE LET event_id == <<"event", Len(events)>>
         IN [response |-> BookingResponse(TRUE, "booked successfully", Some(event_id)),
             events |-> Append(events, CalendarEvent(event_id, title, start_time, end_time))]

-----------------------------------------------------------------------------
(* google_calendar.py *)

\* An event of the remote calendar.  kind says what its start/end strings are:
\* "allday" has 'date' only (no 'T'); "aware" has a dateTime with a UTC offset
\* or 'Z', which datetime.fromisoformat turns into an offset-aware datetime;
\* "naive" has a dateTime without offset.
GoogleEvent(id, s, e, kind) == [id |-> id, start_time |-> s, end_time |-> e, kind |-> kind]

\* events().list(timeMin, timeMax): the events that end after timeMin and
\* start before timeMax
Google_events_list(events, timeMin, timeMax) ==
    {ev \in events : ev.end_time > timeMin /\ ev.start_time < timeMax}

\* orderBy='startTime': the listed events as a sequence
RECURSIVE OrderByStart(_)
OrderByStart(events) ==
    IF events = {} THEN <<>>
    ELSE LET first == CHOOSE ev \in events :
                         \A o \in events : ev.start_time <= o.start_time
         IN <<first>> \o OrderByStart(events \ {first})

\* the for loop of GoogleCalendar.is_time_available: "true", "false", or
\* "raise" when a naive datetime is compared with an offset-aware one
\* (TypeError, which the method does not catch)
RECURSIVE Google_conflict_loop(_, _, _)
Google_conflict_loop(items, start_time, end_time) ==
    IF items = <<>> THEN "true"
    ELSE LET event == Head(items)
         IN IF event.kind = "allday"
            THEN Google_conflict_loop(Tail(items), start_time, end_time)
            ELSE IF event.kind = "aware"
            THEN "raise"
            ELSE IF start_time < event.end_time /\ end_time > event.start_time
            THEN "false"
            ELSE Google_conflict_loop(Tail(items), start_time, end_time)

\* GoogleCalendar.is_time_available; api is what the events().list call does:
\* "ok", "HttpError" or "error" (any other exception)
Google_is_time_available(service, events, start_time, end_time, api) ==
    IF ~service THEN "true"
    ELSE IF api = "HttpError" THEN "true"
    ELSE IF api = "error" THEN "raise"
    ELSE Google_conflict_loop(
            OrderByStart(Google_events_list(events, start_time, end_time)),
            start_time, end_time)

\* one event against one slot in GoogleCalendar._filter_conflicting_slots:
\* all-day events are skipped, and the bare except skips an event whose
\* comparison raises
Google_event_blocks(slot, event) ==
    /\ event.kind = "naive"
    /\ slot.start_time < event.end_time
    /\ slot.end_time > event.start_time

\* GoogleCalendar._filter_conflicting_slots
Google_filter_conflicting_slots(slots, events) ==
    SelectSeq(slots, LAMBDA slot :
        ~ \E event \in events : Google_event_blocks(slot, event))

\* GoogleCalendar._generate_all_slots
RECURSIVE Google_generate_all_slots(_, _, _)
Google_generate_all_slots(current_date, end_date_only, duration_minutes) ==
    IF current_date <= end_date_only
    THEN IF IsWeekend(current_date)
         THEN Google_generate_all_slots(current_date + 1, end_date_only, duration_minutes)
         ELSE generate_day_slots(current_date, duration_minutes)
              \o Google_generate_all_slots(current_date + 1, end_date_only, duration_minutes)
    ELSE <<>>

\* GoogleCalendar.get_availability: [raised, slots]
Google_get_availability(service, events, start_date, end_date, duration_minutes, api) ==
    IF ~service THEN [raised |-> FALSE, slots |-> <<>>]
    ELSE IF api = "HttpError" THEN [raised |-> FALSE, slots |-> <<>>]
    ELSE IF api = "error" THEN [raised |-> TRUE, slots |-> <<>>]
    ELSE [raised |-> FALSE,
          slots |-> Google_filter_conflicting_slots(
                        Google_generate_all_slots(DateOf(start_date), DateOf(end_date),
                                                  duration_minutes),
                        Google_events_list(events, start_date, end_date))]

\* GoogleCalendar.book_appointment: [raised, response, events]; api is what
\* the events().insert call does
Google_book_appointment(service, events, title, start_time, end_time, api) ==
    IF ~service
    THEN [raised |-> FALSE,
          response |-> BookingResponse(FALSE, "Google Calendar service not available", None),
          events |-> events]
    ELSE IF api = "HttpError"
    THEN [raised |-> FALSE,
          response |-> BookingResponse(FALSE, "Failed to book appointment", None),
          events |-> events]
    ELSE IF api = "error"
    THEN [raised |-> TRUE,
          response |-> BookingResponse(FALSE, "raised", None),
          events |-> events]
    ELSE LET id == <<"google", Cardinality(events)>>
         IN [raised |-> FALSE,
             response |-> BookingResponse(TRUE, "booked successfully", Some(id)),
             events |-> events \cup {GoogleEvent(id, start_time, end_time, "aware")}]

-----------------------------------------------------------------------------
(* Text.  A message is a tuple of characters, so that Python's substring    *)
(* test (word in message_lower) is computed, not assumed.                   *)

UpperToLower ==
    "A" :> "a" @@ "B" :> "b" @@ "C" :> "c" @@ "D" :> "d" @@ "E" :> "e" @@ "F" :> "f" @@
    "G" :> "g" @@ "H" :> "h" @@ "I" :> "i" @@ "J" :> "j" @@ "K" :> "k" @@ "L" :> "l" @@
    "M" :> "m" @@ "N" :> "n" @@ "O" :> "o" @@ "P" :> "p" @@ "Q" :> "q" @@ "R" :> "r" @@
    "S" :> "s" @@ "T" :> "t" @@ "U" :> "u" @@ "V" :> "v" @@ "W" :> "w" @@ "X" :> "x" @@
    "Y" :> "y" @@ "Z" :> "z"

\* str.lower()
Lower(text) ==
    [i \in DOMAIN text |->
        IF text[i] \in DOMAIN UpperToLower THEN UpperToLower[text[i]] ELSE text[i]]

\* word in text
Contains(text, word) ==
    \E i \in 0..(Len(text) - Len(word)) : SubSeq(text, i + 1, i + Len(word)) = word

\* any(word in text for word in words)
ContainsAny(text, wordlist) ==
    \E k \in 1..Len(wordlist) : Contains(text, wordlist[k])

\* str(i) for the option numbers
Digit == <<"1", "2", "3", "4", "5", "6", "7", "8", "9">>

time_patterns ==
    << <<"t", "o", "m", "o", "r", "r", "o", "w">>,
       <<"t", "o", "d", "a", "y">>,
       <<"n", "e", "x", "t", " ", "w", "e", "e", "k">>,
       <<"f", "r", "i", "d", "a", "y">>,
       <<"m", "o", "n", "d", "a", "y">>,
       <<"t", "u", "e", "s", "d", "a", "y">>,
       <<"w", "e", "d", "n", "e", "s", "d", "a", "y">>,
       <<"t", "h", "u", "r", "s", "d", "a", "y">>,
       <<"s", "a", "t", "u", "r", "d", "a", "y">>,
       <<"s", "u", "n", "d", "a", "y">>,
       <<"p", "m">>,
       <<"a", "m">>,
       <<"h", "o", "u", "r">>,
       <<"m", "i", "n", "u", "t", "e">>,
       <<"m", "o", "r", "n", "i", "n", "g">>,
       <<"a", "f", "t", "e", "r", "n", "o", "o", "n">>,
       <<"e", "v", "e", "n", "i", "n", "g">>,
       <<"b", "e", "t", "w", "e", "e", "n">>,
       <<"-">> >>

booking_words ==
    << <<"b", "o", "o", "k">>,
       <<"s", "c", "h", "e", "d", "u", "l", "e">>,
       <<"a", "p", "p", "o", "i", "n", "t", "m", "e", "n", "t">>,
       <<"m", "e", "e", "t", "i", "n", "g">>,
       <<"c", "a", "l", "l">>,
       <<"r", "e", "s", "e", "r", "v", "e">>,
       <<"s", "e", "t", " ", "u", "p">>,
       <<"m", "e", "e", "t">> >>

greeting_words ==
    << <<"h", "e", "l", "l", "o">>,
       <<"h", "i">>,
       <<"h", "e", "y">>,
       <<"g", "o", "o", "d", " ", "m", "o", "r", "n", "i", "n", "g">>,
       <<"g", "o", "o", "d", " ", "a", "f", "t", "e", "r", "n", "o", "o", "n">>,
       <<"g", "o", "o", "d", " ", "e", "v", "e", "n", "i", "n", "g">> >>

help_words ==
    << <<"h", "e", "l", "p">>,
       <<"w", "h", "a", "t", " ", "c", "a", "n", " ", "y", "o", "u", " ", "d", "o">>,
       <<"h", "o", "w", " ", "d", "o", "e", "s", " ", "t", "h", "i", "s", " ", "w", "o", "r", "k">>,
       <<"w", "h", "a", "t", " ", "d", "o", " ", "y", "o", "u", " ", "d", "o">> >>

availability_words ==
    << <<"a", "v", "a", "i", "l", "a", "b", "l", "e">>,
       <<"f", "r", "e", "e">>,
       <<"o", "p", "e", "n">>,
       <<"a", "v", "a", "i", "l", "a", "b", "i", "l", "i", "t", "y">>,
       <<"f", "r", "e", "e", " ", "t", "i", "m", "e">>,
       <<"o", "p", "e", "n", " ", "s", "l", "o", "t", "s">> >>

affirmative_words ==
    << <<"y", "e", "s">>,
       <<"c", "o", "n", "f", "i", "r", "m">>,
       <<"b", "o", "o", "k">>,
       <<"s", "c", "h", "e", "d", "u", "l", "e">>,
       <<"o", "k">>,
       <<"s", "u", "r", "e">> >>

negative_words ==
    << <<"n", "o">>,
       <<"c", "a", "n", "c", "e", "l">>,
       <<"n", "e", "v", "e", "r", "m", "i", "n", "d">>,
       <<"n", "o", "t", " ", "n", "o", "w">> >>

meeting_keywords ==
    << <<"m", "e", "e", "t", "i", "n", "g">>,
       <<"c", "a", "l", "l">>,
       <<"a", "p", "p", "o", "i", "n", "t", "m", "e", "n", "t">>,
       <<"i", "n", "t", "e", "r", "v", "i", "e", "w">>,
       <<"c", "o", "n", "s", "u", "l", "t", "a", "t", "i", "o", "n">> >>

W_tomorrow == <<"t", "o", "m", "o", "r", "r", "o", "w">>
W_next_day == <<"n", "e", "x", "t", " ", "d", "a", "y">>
W_next_week == <<"n", "e", "x", "t", " ", "w", "e", "e", "k">>
W_this_week == <<"t", "h", "i", "s", " ", "w", "e", "e", "k">>
W_today == <<"t", "o", "d", "a", "y">>
W_option == <<"o", "p", "t", "i", "o", "n", " ">>
-----------------------------------------------------------------------------
(* User messages.  A message is its text together with what the regular     *)
(* expressions of date_parser.py and dateutil's parser find in it:          *)
(*   range   the groups of the first matching pattern of parse_time_range,  *)
(*   fuzzy   the instant dateutil's parser.parse(text, fuzzy=True) returns  *)
(*           (None when it raises),                                         *)
(*   timepat the index and groups of the first matching pattern of          *)
(*           _parse_time_pattern,                                           *)
(*   dur     the numbers matched by the four patterns of parse_duration.    *)
(* In the messages below today is July 7, so "july 8" is tomorrow.          *)

RangeGroups(h1, m1, ap1, h2, m2, ap2) ==
    Some([h1 |-> h1, m1 |-> m1, ap1 |-> ap1, h2 |-> h2, m2 |-> m2, ap2 |-> ap2])

NoDuration == [hours |-> None, hrs |-> None, minutes |-> None, mins |-> None]

Message(name, text, range, fuzzy, timepat, dur) ==
    [name |-> name, text |-> text, range |-> range, fuzzy |-> fuzzy,
     timepat |-> timepat, dur |-> dur]

M_hello ==
    Message("hello", <<"h", "e", "l", "l", "o">>, None, None, None, NoDuration)

M_call_3pm ==
    Message("Call at 3pm", <<"C", "a", "l", "l", " ", "a", "t", " ", "3", "p", "m">>,
            None, Some(At(0, 15, 0)), Some([pattern |-> 2, g1 |-> 3, g2 |-> "pm"]),
            NoDuration)

M_july8_10am ==
    Message("july 8 at 10am",
            <<"j", "u", "l", "y", " ", "8", " ", "a", "t", " ", "1", "0", "a", "m">>,
            None, Some(At(1, 10, 0)), Some([pattern |-> 2, g1 |-> 10, g2 |-> "am"]),
            NoDuration)

M_book_a_meeting ==
    Message("book a meeting",
            <<"b", "o", "o", "k", " ", "a", " ", "m", "e", "e", "t", "i", "n", "g">>,
            None, None, None, NoDuration)

M_9am_6pm ==
    Message("9am-6pm", <<"9", "a", "m", "-", "6", "p", "m">>,
            RangeGroups(9, None, "am", 6, None, "pm"), Some(At(0, 9, 0)),
            Some([pattern |-> 2, g1 |-> 9, g2 |-> "am"]), NoDuration)

M_5_3pm ==
    Message("5-3pm", <<"5", "-", "3", "p", "m">>,
            RangeGroups(5, None, "", 3, None, "pm"), Some(At(0, 15, 0)),
            Some([pattern |-> 2, g1 |-> 3, g2 |-> "pm"]), NoDuration)

M_12_13pm ==
    Message("12-13pm", <<"1", "2", "-", "1", "3", "p", "m">>,
            RangeGroups(12, None, "", 13, None, "pm"), None,
            Some([pattern |-> 2, g1 |-> 13, g2 |-> "pm"]), NoDuration)

M_yes ==
    Message("Yes", <<"Y", "e", "s">>, None, None, None, NoDuration)

M_no ==
    Message("no", <<"n", "o">>, None, None, None, NoDuration)

M_cancel_the_booking ==
    Message("cancel the booking",
            <<"c", "a", "n", "c", "e", "l", " ", "t", "h", "e", " ",
              "b", "o", "o", "k", "i", "n", "g">>,
            None, None, None, NoDuration)

M_option_1 ==
    Message("option 1", <<"o", "p", "t", "i", "o", "n", " ", "1">>,
            None, Some(At(0 - 6, 0, 0)), None, NoDuration)

M_option_6 ==
    Message("option 6", <<"o", "p", "t", "i", "o", "n", " ", "6">>,
            None, Some(At(0 - 1, 0, 0)), None, NoDuration)

\* dateutil reads the number as a day of the current month: July 12
M_option_12 ==
    Message("option 12", <<"o", "p", "t", "i", "o", "n", " ", "1", "2">>,
            None, Some(At(5, 0, 0)), None, NoDuration)

M_maybe ==
    Message("maybe", <<"m", "a", "y", "b", "e">>, None, None, None, NoDuration)

\* the messages a user sends in the dialogue specification
Vocabulary ==
    {M_call_3pm, M_july8_10am, M_9am_6pm, M_12_13pm, M_yes, M_no,
     M_cancel_the_booking, M_option_1, M_option_6, M_option_12, M_maybe}

-----------------------------------------------------------------------------
(* date_parser.py *)

\* datetime.time(hour, minute) raises ValueError outside these ranges
ValidTime(hour, minute) == hour \in 0..23 /\ minute \in 0..59

\* the conversion to the 24-hour clock in parse_time_range and
\* _parse_time_pattern
To24Hour(hour, ampm) ==
    IF ampm = "pm" /\ hour # 12 THEN hour + 12
    ELSE IF ampm = "am" /\ hour = 12 THEN 0
    ELSE hour

\* DateParser.parse_time_range: [raised, value]; value is None or
\* <<start_time, end_time>>
parse_time_range(m) ==
    IF IsNone(m.range) THEN [raised |-> FALSE, value |-> None]
    ELSE LET g == Val(m.range)
             start_minute == IF IsNone(g.m1) THEN 0 ELSE Val(g.m1)
             end_minute == IF IsNone(g.m2) THEN 0 ELSE Val(g.m2)
             start_ampm == IF g.ap1 = "" /\ g.ap2 # "" THEN g.ap2 ELSE g.ap1
             end_ampm == IF g.ap1 # "" /\ g.ap2 = "" THEN g.ap1 ELSE g.ap2
             start_hour == To24Hour(g.h1, start_ampm)
             end_hour == To24Hour(g.h2, end_ampm)
         IN IF ValidTime(start_hour, start_minute) /\ ValidTime(end_hour, end_minute)
            THEN [raised |-> FALSE,
                  value |-> Some(<<At(0, start_hour, start_minute),
                                   At(0, end_hour, end_minute)>>)]
            ELSE [raised |-> TRUE, value |-> None]

\* DateParser._parse_relative_date on the lowered text
parse_relative_date(text) ==
    IF Contains(text, W_tomorrow) THEN Some(At(1, 9, 0))
    ELSE IF Contains(text, W_next_day) THEN Some(At(1, 9, 0))
    ELSE IF Contains(text, W_next_week)
    THEN LET days_ahead == 7 - Weekday(7)
         IN Some(At(7 + (IF days_ahead = 7 THEN 0 ELSE days_ahead), 9, 0))
    ELSE IF Contains(text, W_this_week)
    THEN IF Weekday(0) >= 5 THEN Some(At(7 - Weekday(0), 9, 0))
         ELSE Some(At(1, 9, 0))
    ELSE IF Contains(text, W_today) THEN Some(At(0, 9, 0))
    ELSE None

\* DateParser._parse_time_pattern: the second and third pattern have two
\* groups, the second being the am/pm text, and int() of it raises ValueError
parse_time_pattern(m) ==
    IF IsNone(m.timepat) THEN [raised |-> FALSE, value |-> None]
    ELSE LET g == Val(m.timepat)
         IN IF g.pattern # 1 THEN [raised |-> TRUE, value |-> None]
            ELSE LET hour == To24Hour(g.g1, g.g3)
                 IN IF ValidTime(hour, g.g2)
                    THEN [raised |-> FALSE, value |-> Some(At(0, hour, g.g2))]
                    ELSE [raised |-> TRUE, value |-> None]

\* DateParser.parse_date_time: [raised, value]
parse_date_time(m) ==
    IF ~IsNone(m.fuzzy) THEN [raised |-> FALSE, value |-> m.fuzzy]
    ELSE IF ~IsNone(parse_relative_date(Lower(m.text)))
    THEN [raised |-> FALSE, value |-> parse_relative_date(Lower(m.text))]
    ELSE parse_time_pattern(m)

\* DateParser.parse_duration: None or the minutes
parse_duration(m) ==
    LET n(x) == IF IsNone(x) THEN 0 ELSE Val(x)
        total_minutes == n(m.dur.hours) * 60 + n(m.dur.hrs) * 60
                         + n(m.dur.minutes) + n(m.dur.mins)
    IN IF total_minutes > 0 THEN Some(total_minutes) ELSE None

-----------------------------------------------------------------------------
(* state.py and schemas.py: the session state *)

\* AppointmentRequest(duration_minutes=60)
NewAppointmentRequest ==
    [title |-> None, description |-> None, start_date |-> None, end_date |-> None,
     duration_minutes |-> Some(60), attendees |-> <<>>]

\* ConversationState()
NewConversationState ==
    [current_state |-> "INITIAL", appointment_request |-> None,
     available_slots |-> <<>>, error_message |-> None]

\* AgentState()
NewAgentState ==
    [conversation_state |-> NewConversationState, messages |-> <<>>,
     intent_result |-> None]

\* a history that puts the newest user message first
add_user_message_first(state, content) ==
    [state EXCEPT !.messages = <<[role |-> "user", content |-> content]>> \o @]

\* AgentState.add_user_message
add_user_message(state, content) ==
    [state EXCEPT !.messages = Append(@, [role |-> "user", content |-> content])]

\* AgentState.add_assistant_message
add_assistant_message(state, content) ==
    [state EXCEPT !.messages = Append(@, [role |-> "assistant", content |-> content])]

\* AgentState.get_last_assistant_message
get_last_assistant_message(state) ==
    LET idx == {i \in DOMAIN state.messages : state.messages[i].role = "assistant"}
    IN IF idx = {} THEN None
       ELSE Some(state.messages[CHOOSE i \in idx : \A j \in idx : j <= i].content)

\* AgentState.update_state
update_state(state, new_state) ==
    [state EXCEPT !.conversation_state.current_state = new_state]

\* AgentState.set_appointment_request
set_appointment_request(state, appointment_request) ==
    [state EXCEPT !.conversation_state.appointment_request = Some(appointment_request)]

\* Python truth of an Optional[int]: None and 0 are false
Truthy(x) == ~IsNone(x) /\ Val(x) # 0

-----------------------------------------------------------------------------
(* nodes.py.  A handler takes and returns a context: the session state it   *)
(* works on, both calendars, the backend calls of the turn so far, the      *)
(* handlers entered, and whether an exception is on its way to the caller.  *)
(* m is the last user message; o says what the remote services do in this   *)
(* turn: o.first for the single-slot check or the insert, o.second for the  *)
(* availability search ("ok", "HttpError", "error"), o.ai_intent and        *)
(* o.ai_extract for the OpenAI client.                                      *)

Reply(ctx, content, new_state) ==
    [ctx EXCEPT !.state = update_state(add_assistant_message(@, content), new_state)]

Enter(ctx, handler) == [ctx EXCEPT !.path = Append(@, handler)]

Raise(ctx) == [ctx EXCEPT !.raised = TRUE]

Call(op, backend, s, e, d, api, outcome, id) ==
    [op |-> op, backend |-> backend, start_time |-> s, end_time |-> e,
     duration_minutes |-> d, api |-> api, outcome |-> outcome, event_id |-> id]

\* what the remote API did on a request: "none" when no request was sent
Requested(api) == IF use_real /\ google_service THEN api ELSE "none"

Draft(ctx) == Val(ctx.state.conversation_state.appointment_request)

HasDraft(ctx) == ~IsNone(ctx.state.conversation_state.appointment_request)

\* ConversationNodes._classify_with_enhanced_rules
classify_with_enhanced_rules(text) ==
    LET message_lower == Lower(text)
    IN IF ContainsAny(message_lower, greeting_words) THEN "GREETING"
       ELSE IF ContainsAny(message_lower, help_words) THEN "HELP"
       ELSE IF ContainsAny(message_lower, time_patterns) THEN "BOOK_APPOINTMENT"
       ELSE IF ContainsAny(message_lower, booking_words) THEN "BOOK_APPOINTMENT"
       ELSE IF ContainsAny(message_lower, availability_words) THEN "CHECK_AVAILABILITY"
       ELSE "UNKNOWN"

\* classify_intent storing UNKNOWN when the OpenAI classifier fails
classify_intent_no_rules(ctx, m, o) ==
    IF m.text = <<>> THEN ctx
    ELSE IF client
    THEN [ctx EXCEPT !.state.intent_result =
                        Some(IF o.ai_intent = "fallback" THEN "UNKNOWN" ELSE o.ai_intent)]
    ELSE [ctx EXCEPT !.state.intent_result = Some(classify_with_enhanced_rules(m.text))]

\* ConversationNodes.classify_intent
classify_intent(ctx, m, o) ==
    IF m.text = <<>> THEN ctx
    ELSE IF client /\ o.ai_intent # "fallback"
    THEN [ctx EXCEPT !.state.intent_result = Some(o.ai_intent)]
    ELSE [ctx EXCEPT !.state.intent_result = Some(classify_with_enhanced_rules(m.text))]

\* ConversationNodes.handle_greeting
handle_greeting(ctx) == Reply(Enter(ctx, "handle_greeting"), "greeting", "INITIAL")

\* ConversationNodes.handle_help
handle_help(ctx) == Reply(Enter(ctx, "handle_help"), "help", "INITIAL")

\* ConversationNodes.handle_unknown_intent
handle_unknown_intent(ctx) ==
    Reply(Enter(ctx, "handle_unknown_intent"), "unknown_intent", "INITIAL")

\* ConversationNodes.handle_contextual_response
handle_contextual_response(ctx, o) ==
    LET c == Enter(ctx, "handle_contextual_response")
    IN IF ~client THEN handle_unknown_intent(c)
       ELSE IF o.ai_reply = "raise" THEN handle_unknown_intent(c)
       ELSE IF o.ai_reply = "empty" THEN Reply(c, "", "INITIAL")
       ELSE Reply(c, "contextual", "INITIAL")

\* the slots stored by suggest_alternative_slots: available_slots[:5]
MaxSuggestions == 5

\* every slot found is offered
AllSlots(slots) == slots

\* available_slots.available_slots[:5]
FirstSlots(slots) == SubSeq(slots, 1, IF Len(slots) < MaxSuggestions THEN Len(slots)
                                      ELSE MaxSuggestions)

SearchDays == 7
DefaultDuration == 60

\* ConversationNodes.suggest_alternative_slots
suggest_alternative_slots(ctx, o) ==
    LET c == Enter(ctx, "suggest_alternative_slots")
    IN IF ~HasDraft(c) THEN c
       ELSE
        LET req == Draft(c)
            start_search == IF IsNone(req.start_date) THEN now ELSE Val(req.start_date)
            end_search == start_search + SearchDays * DayMinutes
            duration == IF Truthy(req.duration_minutes) THEN Val(req.duration_minutes)
                        ELSE DefaultDuration
            found == IF use_real
                     THEN Google_get_availability(google_service, c.google, start_search,
                                                  end_search, duration, o.second)
                     ELSE [raised |-> FALSE,
                           slots |-> Mock_get_availability(c.mock, start_search,
                                                           end_search, duration)]
            called == [c EXCEPT !.calls = Append(@,
                          Call("get_availability", IF use_real THEN "google" ELSE "mock",
                               start_search, end_search, duration, Requested(o.second),
                               IF found.raised THEN "raise" ELSE "slots", None))]
        IN IF found.raised
           THEN Reply(called, "suggest_error", "COLLECTING_DETAILS")
           ELSE IF found.slots # <<>>
           THEN Reply([called EXCEPT !.state.conversation_state.available_slots =
                            FirstSlots(found.slots)],
                      "alternatives", "SUGGESTING_SLOTS")
           ELSE Reply(called, "no_slots", "COLLECTING_DETAILS")

\* the title a keyword of the message gives (the for loop over
\* meeting_keywords of collect_appointment_details_with_ai)
Titles == <<"Meeting", "Call", "Appointment", "Interview", "Consultation">>

DefaultTitle == "Meeting"

KeywordTitle(text) ==
    LET hits == {k \in 1..Len(meeting_keywords) : Contains(Lower(text), meeting_keywords[k])}
    IN IF hits = {} THEN DefaultTitle
       ELSE Titles[CHOOSE k \in hits : \A j \in hits : k <= j]

\* the fields the extractor's answer overwrites (lines 210-225); an answer
\* that is absent, has raised or is no JSON object changes nothing
ApplyExtraction(req, x) ==
    IF ~x.ok THEN req
    ELSE [req EXCEPT
            !.start_date = IF IsNone(x.start_time) THEN @ ELSE x.start_time,
            !.end_date = IF IsNone(x.end_time) THEN @ ELSE x.end_time,
            !.duration_minutes = IF Truthy(x.duration) THEN x.duration ELSE @,
            !.title = IF IsNone(x.title) THEN @ ELSE x.title,
            !.description = IF IsNone(x.description) THEN @ ELSE x.description]

\* FallbackTimes parsing the message whether or not the draft has a start
FallbackTimes_always(req, m) ==
    LET time_range == parse_time_range(m)
    IN IF time_range.raised THEN [raised |-> TRUE, req |-> req]
       ELSE IF ~IsNone(time_range.value)
       THEN LET se == Val(time_range.value)
            IN [raised |-> FALSE,
                req |-> [req EXCEPT !.start_date = Some(se[1]),
                                    !.end_date = Some(se[2]),
                                    !.duration_minutes = Some(se[2] - se[1])]]
       ELSE LET parsed_date == parse_date_time(m)
            IN IF parsed_date.raised THEN [raised |-> TRUE, req |-> req]
               ELSE IF ~IsNone(parsed_date.value)
               THEN [raised |-> FALSE,
                     req |-> [req EXCEPT !.start_date = parsed_date.value]]
               ELSE [raised |-> FALSE, req |-> req]

\* the rule-based fallback for start and end (lines 231-244): [raised, req]
FallbackTimes(req, m) ==
    IF ~IsNone(req.start_date) THEN [raised |-> FALSE, req |-> req]
    ELSE LET time_range == parse_time_range(m)
         IN IF time_range.raised THEN [raised |-> TRUE, req |-> req]
            ELSE IF ~IsNone(time_range.value)
            THEN LET se == Val(time_range.value)
                 IN [raised |-> FALSE,
                     req |-> [req EXCEPT !.start_date = Some(se[1]),
                                         !.end_date = Some(se[2]),
                                         !.duration_minutes = Some(se[2] - se[1])]]
            ELSE LET parsed_date == parse_date_time(m)
                 IN IF parsed_date.raised THEN [raised |-> TRUE, req |-> req]
                    ELSE IF ~IsNone(parsed_date.value)
                    THEN [raised |-> FALSE,
                          req |-> [req EXCEPT !.start_date = parsed_date.value]]
                    ELSE [raised |-> FALSE, req |-> req]

\* the duration fallback (lines 247-252)
FallbackDuration(req, m) ==
    IF Truthy(req.duration_minutes) THEN req
    ELSE IF ~IsNone(parse_duration(m))
    THEN [req EXCEPT !.duration_minutes = parse_duration(m)]
    ELSE IF IsNone(req.end_date)
    THEN [req EXCEPT !.duration_minutes = Some(DefaultDuration)]
    ELSE req

\* the default title (lines 255-268)
FallbackTitle(req, m) ==
    IF IsNone(req.title) \/ req.title = Some("")
    THEN [req EXCEPT !.title = Some(KeywordTitle(m.text))]
    ELSE req

RECURSIVE check_availability(_, _, _)

\* the draft merge of collect_appointment_details_with_ai on its own (lines
\* 201-282): the extractor's fields, the rule-based fallbacks, and the end
\* computed from start and duration when both are known: [raised, req]
merge_draft(appointment_request, m, x) ==
    LET extracted == IF client THEN ApplyExtraction(appointment_request, x)
                     ELSE appointment_request
        times == FallbackTimes(extracted, m)
    IN IF times.raised THEN times
       ELSE LET req == FallbackTitle(FallbackDuration(times.req, m), m)
            IN [raised |-> FALSE,
                req |-> IF /\ ~IsNone(req.start_date)
                           /\ ~IsNone(req.duration_minutes)
                           /\ IsNone(req.end_date)
                        THEN [req EXCEPT !.end_date =
                                Some(Val(req.start_date) + Val(req.duration_minutes))]
                        ELSE req]

\* ConversationNodes.collect_appointment_details_with_ai
collect_appointment_details_with_ai(ctx, m, o) ==
    LET c == Enter(ctx, "collect_appointment_details_with_ai")
    IN IF m.text = <<>> THEN c
       ELSE
        LET extracted == IF client THEN ApplyExtraction(
                                IF HasDraft(c) THEN Draft(c) ELSE NewAppointmentRequest,
                                o.ai_extract)
                         ELSE IF HasDraft(c) THEN Draft(c) ELSE NewAppointmentRequest
            times == FallbackTimes(extracted, m)
        IN IF times.raised
           \* the exception leaves the handler; a draft the session already
           \* held has been changed in place, a new one is dropped
           THEN Raise(IF HasDraft(c) THEN [c EXCEPT !.state =
                                              set_appointment_request(@, times.req)]
                      ELSE c)
           ELSE
            LET req == FallbackTitle(FallbackDuration(times.req, m), m)
                has_start_time == ~IsNone(req.start_date)
                has_duration == ~IsNone(req.duration_minutes)
                saved == [c EXCEPT !.state = set_appointment_request(@, req)]
            IN IF has_start_time /\ has_duration
               THEN LET full == IF IsNone(req.end_date)
                                THEN [req EXCEPT !.end_date =
                                        Some(Val(req.start_date) + Val(req.duration_minutes))]
                                ELSE req
                    IN check_availability(
                         [c EXCEPT !.state = update_state(set_appointment_request(@, full),
                                                          "CHECKING_AVAILABILITY")],
                         m, o)
               ELSE IF has_start_time
               THEN Reply(saved, "ask_duration", "COLLECTING_DETAILS")
               ELSE Reply(saved, "ask_time", "COLLECTING_DETAILS")

\* the interval check_availability and book_appointment pass to the backend:
\* end_date or start_date + timedelta(minutes=duration_minutes)
DraftEnd(req) ==
    IF IsNone(req.end_date) THEN Val(req.start_date) + Val(req.duration_minutes)
    ELSE Val(req.end_date)

\* a check that is left for the next turn
check_availability_deferred(ctx, m, o) == Enter(ctx, "check_availability")

\* ConversationNodes.check_availability; MockCalendar has no method
\* is_time_available, so with the in-memory backend the call raises
\* AttributeError inside the try block
check_availability(ctx, m, o) ==
    LET c == Enter(ctx, "check_availability")
    IN IF ~HasDraft(c) \/ IsNone(Draft(c).start_date)
       THEN collect_appointment_details_with_ai(c, m, o)
       ELSE
        LET req == Draft(c)
            is_available ==
                IF use_real
                THEN Google_is_time_available(google_service, c.google,
                                              Val(req.start_date), DraftEnd(req), o.first)
                ELSE "raise"
            called == [c EXCEPT !.calls = Append(@,
                          Call("is_time_available", IF use_real THEN "google" ELSE "mock",
                               Val(req.start_date), DraftEnd(req), 0, Requested(o.first),
                               is_available, None))]
        IN IF is_available = "true"
           THEN Reply(called, "available_confirm", "CONFIRMING_BOOKING")
           ELSE IF is_available = "false"
           THEN suggest_alternative_slots(
                    [called EXCEPT !.state = update_state(@, "SUGGESTING_SLOTS")], o)
           ELSE suggest_alternative_slots(
                    Reply(called, "calendar_error", "SUGGESTING_SLOTS"), o)

\* SelectedOption taking the highest offered index the message contains
SelectedOption_highest(message_lower, available_slots) ==
    LET hits == {i \in 1..Len(available_slots) :
                    Contains(message_lower, <<Digit[i]>>)}
    IN IF hits = {} THEN 0 ELSE CHOOSE i \in hits : \A j \in hits : i >= j

\* the for loop of handle_slot_selection: the first offered slot whose
\* number occurs in the message, 0 when there is none
SelectedOption(message_lower, available_slots) ==
    LET hits == {i \in 1..Len(available_slots) :
                    \/ Contains(message_lower, W_option \o <<Digit[i]>>)
                    \/ Contains(message_lower, <<Digit[i]>>)}
    IN IF hits = {} THEN 0 ELSE CHOOSE i \in hits : \A j \in hits : i <= j

\* ConversationNodes.handle_slot_selection
handle_slot_selection(ctx, m, o) ==
    LET c == Enter(ctx, "handle_slot_selection")
        available_slots == c.state.conversation_state.available_slots
        selected == SelectedOption(Lower(m.text), available_slots)
    IN IF m.text = <<>> THEN c
       ELSE IF available_slots = <<>> THEN collect_appointment_details_with_ai(c, m, o)
       ELSE IF selected # 0
       THEN LET selected_slot == available_slots[selected]
                req == [Draft(c) EXCEPT !.start_date = Some(selected_slot.start_time),
                                        !.end_date = Some(selected_slot.end_time)]
            IN Reply([c EXCEPT !.state = set_appointment_request(@, req)],
                     "great_choice", "CONFIRMING_BOOKING")
       ELSE collect_appointment_details_with_ai(c, m, o)

booking_outcome_always_complete(called, booking) ==
    Reply(called, "booked", "BOOKING_COMPLETE")

\* booking_outcome repeating a create-event call that did not succeed
booking_outcome_retry(called, booking) ==
    IF booking.raised \/ ~booking.response.success
    THEN Reply([called EXCEPT !.calls = Append(@, @[Len(@)])],
               "booking_failed", "COLLECTING_DETAILS")
    ELSE Reply(called, "booked", "BOOKING_COMPLETE")

\* booking_outcome clearing the offered slots of a session that booked
booking_outcome_clearing(called, booking) ==
    IF booking.raised
    THEN Reply(called, "booking_error", "COLLECTING_DETAILS")
    ELSE IF booking.response.success
    THEN Reply([called EXCEPT !.state.conversation_state.available_slots = <<>>],
               "booked", "BOOKING_COMPLETE")
    ELSE Reply(called, "booking_failed", "COLLECTING_DETAILS")

\* what book_appointment does with the backend's answer (lines 535-557)
booking_outcome(called, booking) ==
    IF booking.raised
    THEN Reply(called, "booking_error", "COLLECTING_DETAILS")
    ELSE IF booking.response.success
    THEN Reply(called, "booked", "BOOKING_COMPLETE")
    ELSE Reply(called, "booking_failed", "COLLECTING_DETAILS")

\* book_appointment handing every confirmation back to the detail collection
book_appointment_recollecting(ctx, m, o) ==
    collect_appointment_details_with_ai(Enter(ctx, "book_appointment"), m, o)

\* ConversationNodes.book_appointment
book_appointment(ctx, m, o) ==
    LET c == Enter(ctx, "book_appointment")
    IN IF ~HasDraft(c) \/ IsNone(Draft(c).start_date)
       THEN collect_appointment_details_with_ai(c, m, o)
       ELSE
        LET req == Draft(c)
            start_time == Val(req.start_date)
            end_time == DraftEnd(req)
            booking ==
                IF use_real
                THEN Google_book_appointment(google_service, c.google, Val(req.title),
                                             start_time, end_time, o.first)
                ELSE [raised |-> FALSE] @@
                     Mock_book_appointment(c.mock, Val(req.title), start_time, end_time)
            called == [c EXCEPT
                         !.calls = Append(@,
                            Call("book_appointment", IF use_real THEN "google" ELSE "mock",
                                 start_time, end_time,
                                 Val(req.duration_minutes), Requested(o.first),
                                 IF booking.raised THEN "raise"
                                 ELSE IF booking.response.success THEN "success"
                                 ELSE "failure",
                                 booking.response.event_id)),
                         !.mock = IF use_real THEN @ ELSE booking.events,
                         !.google = IF use_real THEN booking.events ELSE @]
        IN booking_outcome(called, booking)

\* confirm_booking booking on every reply that is not a refusal
confirm_booking_eager(ctx, m, o) ==
    LET c == Enter(ctx, "confirm_booking")
    IN IF m.text = <<>> THEN c
       ELSE IF ContainsAny(Lower(m.text), negative_words)
       THEN Reply(c, "cancelled", "INITIAL")
       ELSE book_appointment(c, m, o)

\* confirm_booking dropping the draft when the booking is declined
confirm_booking_forgetting(ctx, m, o) ==
    LET c == Enter(ctx, "confirm_booking")
        message_lower == Lower(m.text)
        declined == Reply(c, "cancelled", "INITIAL")
    IN IF m.text = <<>> THEN c
       ELSE IF ContainsAny(message_lower, affirmative_words)
       THEN book_appointment(c, m, o)
       ELSE IF ContainsAny(message_lower, negative_words)
       THEN [declined EXCEPT
                !.state.conversation_state.appointment_request = None]
       ELSE Reply(c, "unclear", "CONFIRMING_BOOKING")

\* ConversationNodes.confirm_booking
confirm_booking(ctx, m, o) ==
    LET c == Enter(ctx, "confirm_booking")
        message_lower == Lower(m.text)
    IN IF m.text = <<>> THEN c
       ELSE IF ContainsAny(message_lower, affirmative_words)
       THEN book_appointment(c, m, o)
       ELSE IF ContainsAny(message_lower, negative_words)
       THEN Reply(c, "cancelled", "INITIAL")
       ELSE Reply(c, "unclear", "CONFIRMING_BOOKING")

-----------------------------------------------------------------------------
(* conversation_graph.py *)

\* _route_initial_intent collecting details for every classification
route_initial_intent_always_collect(ctx, m, o) ==
    collect_appointment_details_with_ai(ctx, m, o)

\* ConversationGraph._route_initial_intent
route_initial_intent(ctx, m, o) ==
    IF IsNone(ctx.state.intent_result) THEN handle_contextual_response(ctx, o)
    ELSE LET intent == Val(ctx.state.intent_result)
         IN IF intent = "GREETING" THEN handle_greeting(ctx)
            ELSE IF intent = "HELP" THEN handle_help(ctx)
            ELSE IF intent \in {"BOOK_APPOINTMENT", "CHECK_AVAILABILITY"}
            THEN collect_appointment_details_with_ai(ctx, m, o)
            ELSE handle_contextual_response(ctx, o)

\* the routing taking a reply to offered slots as a confirmation
Route_confirming_early(ctx, m, o) ==
    LET current_state == ctx.state.conversation_state.current_state
    IN IF current_state = "INITIAL"
       THEN route_initial_intent(classify_intent(ctx, m, o), m, o)
       ELSE IF current_state = "COLLECTING_DETAILS"
       THEN collect_appointment_details_with_ai(ctx, m, o)
       ELSE IF current_state \in {"SUGGESTING_SLOTS", "CONFIRMING_BOOKING"}
       THEN confirm_booking(ctx, m, o)
       ELSE handle_contextual_response(ctx, o)

\* the routing of process_message (lines 39-59)
Route(ctx, m, o) ==
    LET current_state == ctx.state.conversation_state.current_state
    IN IF current_state = "INITIAL"
       THEN route_initial_intent(classify_intent(ctx, m, o), m, o)
       ELSE IF current_state = "COLLECTING_DETAILS"
       THEN collect_appointment_details_with_ai(ctx, m, o)
       ELSE IF current_state = "CHECKING_AVAILABILITY"
       THEN check_availability(ctx, m, o)
       ELSE IF current_state = "SUGGESTING_SLOTS"
       THEN handle_slot_selection(ctx, m, o)
       ELSE IF current_state = "CONFIRMING_BOOKING"
       THEN confirm_booking(ctx, m, o)
       ELSE handle_contextual_response(ctx, o)

\* the reply used when the session holds no assistant message
DefaultReply == "I'm here to help you book appointments"

is_confirming_or_suggesting(state) ==
    state.conversation_state.current_state \in {"CONFIRMING_BOOKING", "SUGGESTING_SLOTS"}

\* AgentState.is_confirming_booking
is_confirming_booking(state) ==
    state.conversation_state.current_state = "CONFIRMING_BOOKING"

\* the dictionary of the except branch (lines 77-85)
ErrorResponse(ctx) ==
    [message |-> "I encountered an error",
     state |-> NewAgentState.conversation_state,
     available_slots |-> <<>>,
     requires_confirmation |-> FALSE,
     error |-> Some("exception")]

\* the dictionary of the try branch (lines 64-75); "not
\* last_assistant_message" holds for None and for the empty text
TurnResponse(ctx) ==
    [message |-> IF IsNone(get_last_assistant_message(ctx.state)) THEN DefaultReply
                 ELSE IF Val(get_last_assistant_message(ctx.state)) = ""
                 THEN DefaultReply
                 ELSE Val(get_last_assistant_message(ctx.state)),
     state |-> ctx.state.conversation_state,
     available_slots |-> ctx.state.conversation_state.available_slots,
     requires_confirmation |-> is_confirming_booking(ctx.state),
     error |-> ctx.state.conversation_state.error_message]

ResponseOfTryBranchOnly(ctx) == TurnResponse(ctx)

\* what process_message returns
Response(ctx) ==
    IF ctx.raised THEN ErrorResponse(ctx) ELSE TurnResponse(ctx)

\* the session ids of the model; "default" is process_message's default
SessionIds == {"default", "other"}

\* a session id that is not in the sessions dictionary
NoSession == [absent |-> TRUE]

\* what the remote services may do in one turn
Outcomes == {"ok", "HttpError", "error"}

NoExtraction ==
    [ok |-> FALSE, start_time |-> None, end_time |-> None, duration |-> None,
     title |-> None, description |-> None]

\* an answer of the extractor for a request of ten hours tomorrow at 10:00
LongExtraction ==
    [ok |-> TRUE, start_time |-> Some(At(1, 10, 0)), end_time |-> None,
     duration |-> Some(600), title |-> Some("Meeting"), description |-> None]

\* what the Google API may do on a request of the turn
RemoteOutcomes == IF use_real /\ google_service THEN Outcomes ELSE {"ok"}

\* what the OpenAI classifier may answer: an intent, or nothing usable
\* ("fallback": the call raised or the answer was no JSON)
ClassifierAnswers ==
    IF client
    THEN {"fallback", "GREETING", "HELP", "BOOK_APPOINTMENT", "UNKNOWN"}
    ELSE {"fallback"}

\* what the OpenAI extractor may answer
ExtractorAnswers == IF client THEN {NoExtraction, LongExtraction} ELSE {NoExtraction}

\* whether the OpenAI call of handle_contextual_response answers with a
\* text, answers with a text that strip() leaves empty, or raises
ReplyAnswers == IF client THEN {"ok", "empty", "raise"} ELSE {"raise"}

Oracles ==
    {[first |-> f, second |-> s, ai_intent |-> i, ai_extract |-> x, ai_reply |-> r] :
        f \in RemoteOutcomes, s \in RemoteOutcomes,
        i \in ClassifierAnswers, x \in ExtractorAnswers, r \in ReplyAnswers}

\* the remote requests of one turn that the API failed
FailedRequests(calls) ==
    Cardinality({i \in DOMAIN calls : calls[i].api \in {"HttpError", "error"}})

\* ConversationGraph.process_message
process_message(session_id, m, o) ==
    LET before == IF sessions[session_id] = NoSession THEN NewAgentState
                  ELSE sessions[session_id]
        ctx0 == [state |-> add_user_message(before, m.name),
                 mock |-> mock_events, google |-> google_events,
                 calls |-> <<>>, path |-> <<>>, raised |-> FALSE]
    IN \E ctx \in {Route(ctx0, m, o)} :
       /\ sessions' = [sessions EXCEPT ![session_id] = ctx.state]
       /\ mock_events' = ctx.mock
       /\ google_events' = ctx.google
       /\ turn' = [session_id |-> session_id,
                   message |-> m,
                   before |-> before,
                   calls |-> ctx.calls,
                   path |-> ctx.path,
                   raised |-> ctx.raised,
                   response |-> Response(ctx)]
       /\ turns' = turns + 1
       /\ faults' = faults + FailedRequests(ctx.calls)
       /\ UNCHANGED <<todayWd, use_real, google_service, client, now, probe, host>>

\* no process_message call has returned since the start or the last reset
NoTurn == [session_id |-> "", raised |-> FALSE, calls |-> <<>>, path |-> <<>>]

\* ConversationGraph.reset_conversation
reset_conversation(session_id) ==
    /\ sessions' = [sessions EXCEPT ![session_id] = NoSession]
    /\ turn' = NoTurn
    /\ UNCHANGED <<todayWd, use_real, mock_events, google_service, google_events,
                   turns, faults, probe, client, now, host>>

-----------------------------------------------------------------------------
(* The dialogue specification: one user talks to the agent *)

NoProbe == [op |-> "none"]

\* no process_message call is in progress in a thread
NoHost == [threads |-> <<>>]

\* the events of the remote calendar when the service starts; the API
\* returns dateTime values with an offset
BusyRemote ==
    {GoogleEvent(<<"remote", 0>>, At(1, 10, 0), At(1, 11, 0), "aware")}

\* the deployments explored: weekday of today, USE_REAL_CALENDAR, whether
\* the Google credentials loaded, and the remote calendar
Deployments ==
    { [wd |-> 0, real |-> FALSE, service |-> FALSE, events |-> {}],
      [wd |-> 4, real |-> FALSE, service |-> FALSE, events |-> {}],
      [wd |-> 0, real |-> TRUE, service |-> FALSE, events |-> {}],
      [wd |-> 4, real |-> TRUE, service |-> TRUE, events |-> {}],
      [wd |-> 0, real |-> TRUE, service |-> TRUE, events |-> BusyRemote] }

InitBackends ==
    \E d \in Deployments :
        /\ todayWd = d.wd
        /\ use_real = d.real
        /\ google_service = d.service
        /\ google_events = d.events

Init ==
    /\ InitBackends
    /\ mock_events = generate_mock_events
    /\ sessions = [s \in SessionIds |-> NoSession]
    /\ turn = NoTurn
    /\ turns = 0
    /\ faults = 0
    /\ probe = NoProbe
    /\ client = FALSE
    /\ now = At(0, 12, 0)
    /\ host = NoHost

\* one request to POST /chat with a message of the given set
TurnOf(messages, limit) ==
    /\ turns < limit
    /\ \E m \in messages : \E o \in Oracles :
          /\ (o.first # "ok" \/ o.second # "ok") => faults < MaxFaults
          /\ process_message("default", m, o)
    /\ faults' <= MaxFaults

Turn ==
    TurnOf(Vocabulary, MaxTurns)

Reset ==
    reset_conversation("default")

Next ==
    \/ Turn
    \/ Reset

Spec == Init /\ [][Next]_vars

-----------------------------------------------------------------------------
(* The dialogue with the OpenAI collaborators configured (OPENAI_API_KEY is *)
(* set): the classifier, the extractor and the reply generator answer or    *)
(* fail in every turn.                                                      *)

\* the messages a user sends when the collaborators are configured
VocabularyAI ==
    {M_july8_10am, M_12_13pm, M_yes, M_no, M_option_1, M_maybe}

AIDeployments ==
    { [wd |-> 0, real |-> FALSE, service |-> FALSE, events |-> {}],
      [wd |-> 4, real |-> TRUE, service |-> TRUE, events |-> {}] }

InitAI ==
    /\ \E d \in AIDeployments :
          /\ todayWd = d.wd
          /\ use_real = d.real
          /\ google_service = d.service
          /\ google_events = d.events
    /\ mock_events = generate_mock_events
    /\ sessions = [s \in SessionIds |-> NoSession]
    /\ turn = NoTurn
    /\ turns = 0
    /\ faults = 0
    /\ probe = NoProbe
    /\ client = TRUE
    /\ now = At(0, 12, 0)
    /\ host = NoHost

TurnAI ==
    TurnOf(VocabularyAI, MaxTurnsAI)

NextAI ==
    \/ TurnAI
    \/ Reset

SpecAI == InitAI /\ [][NextAI]_vars

-----------------------------------------------------------------------------
(* The calendar endpoints of main.py, which hand their arguments to the     *)
(* selected backend                                                         *)

MaxDaysAhead == 90

\* InputValidator.validate_date_range
validate_date_range(start_date, end_date) ==
    IF start_date >= end_date THEN FALSE
    ELSE IF start_date < now THEN FALSE
    ELSE IF start_date > now + MaxDaysAhead * DayMinutes THEN FALSE
    ELSE TRUE

\* main.get_availability: GET /availability.  The HTTPException raised for
\* a bad range is caught by the handler's own "except Exception" and leaves
\* as status 500, like an exception of the backend.
main_get_availability(start_dt, end_dt, duration_minutes, api) ==
    LET found == IF use_real
                 THEN Google_get_availability(google_service, google_events, start_dt,
                                              end_dt, duration_minutes, api)
                 ELSE [raised |-> FALSE,
                       slots |-> Mock_get_availability(mock_events, start_dt, end_dt,
                                                       duration_minutes)]
        called == validate_date_range(start_dt, end_dt)
    IN /\ probe' = [op |-> "get_availability",
                    start_date |-> start_dt, end_date |-> end_dt,
                    duration_minutes |-> duration_minutes,
                    called |-> called,
                    api |-> IF called THEN Requested(api) ELSE "none",
                    status |-> IF called /\ ~found.raised THEN 200 ELSE 500,
                    slots |-> IF called /\ ~found.raised THEN found.slots ELSE <<>>]
       /\ UNCHANGED <<todayWd, use_real, mock_events, google_service, google_events,
                      sessions, turn, turns, faults, client, now, host>>

\* main.book_appointment: POST /book with a non-blank title
main_book_appointment(title, start_dt, end_dt, api) ==
    LET booking == IF use_real
                   THEN Google_book_appointment(google_service, google_events, title,
                                                start_dt, end_dt, api)
                   ELSE [raised |-> FALSE] @@
                        Mock_book_appointment(mock_events, title, start_dt, end_dt)
    IN /\ probe' = [op |-> "book_appointment",
                    start_date |-> start_dt, end_date |-> end_dt,
                    duration_minutes |-> end_dt - start_dt,
                    called |-> TRUE,
                    api |-> Requested(api),
                    status |-> IF booking.raised THEN 500
                               ELSE IF booking.response.success THEN 200 ELSE 400,
                    slots |-> <<>>]
       /\ mock_events' = IF use_real THEN mock_events ELSE booking.events
       /\ google_events' = IF use_real THEN booking.events ELSE google_events
       /\ turns' = turns + 1
       /\ UNCHANGED <<todayWd, use_real, google_service,
                      sessions, turn, faults, client, now, host>>

-----------------------------------------------------------------------------
(* The calendar specification: clients query and book through the endpoints *)

\* requests explored per behaviour that add an event
MaxBookings == 1

\* the instants a request may name: days 0..MaxDay at these hours
ProbeHours == {8, 13}

ProbeInstants == {At(d, h, 0) : d \in 0..MaxDay, h \in ProbeHours}

\* the instants a window may end
ProbeAfternoons == {At(d, 13, 0) : d \in 0..MaxDay}

\* the instants a booked appointment may start: the afternoons, and half
\* past ten tomorrow, inside the first seeded event of the in-memory calendar
BookStarts == ProbeAfternoons \cup {At(1, 10, 30)}

\* the duration_minutes a request may name (the endpoint takes any int)
ProbeDurations == {0 - 30, 0, 30, 60, 540}

\* the lengths of the appointments a client books
BookLengths == {0, 60}

\* a remote event whose dateTime strings carry no offset
NaiveRemote ==
    {GoogleEvent(<<"remote", 0>>, At(1, 10, 0), At(1, 11, 0), "naive")}

AvailDeployments ==
    { [wd |-> w, real |-> FALSE, service |-> FALSE, events |-> {}] : w \in {0, 4, 5} }
    \cup
    { [wd |-> w, real |-> TRUE, service |-> TRUE, events |-> ev] :
        w \in {0, 4}, ev \in {BusyRemote, NaiveRemote} }
    \cup
    { [wd |-> 0, real |-> TRUE, service |-> FALSE, events |-> {}] }

InitAvail ==
    /\ \E d \in AvailDeployments :
          /\ todayWd = d.wd
          /\ use_real = d.real
          /\ google_service = d.service
          /\ google_events = d.events
    /\ mock_events = generate_mock_events
    /\ sessions = [s \in SessionIds |-> NoSession]
    /\ turn = NoTurn
    /\ turns = 0
    /\ faults = 0
    /\ probe = NoProbe
    /\ client = FALSE
    /\ now = At(0, 12, 0)
    /\ host = NoHost

\* A query leaves the calendar as it is, so a query that follows a query
\* reaches no state that a single query does not reach.
QueryAvailability ==
    /\ probe.op # "get_availability"
    /\ \E start_dt \in ProbeInstants, end_dt \in ProbeAfternoons,
          duration_minutes \in ProbeDurations, api \in Outcomes :
          main_get_availability(start_dt, end_dt, duration_minutes, api)

BookDirectly ==
    /\ turns < MaxBookings
    /\ \E start_dt \in BookStarts, length \in BookLengths, api \in Outcomes :
          main_book_appointment("Meeting", start_dt, start_dt + length, api)

NextAvail ==
    \/ QueryAvailability
    \/ BookDirectly

SpecAvail == InitAvail /\ [][NextAvail]_vars

-----------------------------------------------------------------------------
(* Properties of the dialogue (checked under Spec)                          *)

\* the elements of a sequence
Range(seq) == {seq[i] : i \in DOMAIN seq}

\* a process_message call has returned
Returned == turn.session_id # ""

\* the dialogue state the session was in when the message arrived
StateBefore == turn.before.conversation_state.current_state

\* the stored session after the turn
After == sessions[turn.session_id]

StateAfter == After.conversation_state.current_state

\* the calls of the turn to one operation of the backend
CallsOf(op) == {c \in Range(turn.calls) : c.op = op}

\* the backend answered every request of the turn: the Google service is
\* there when it is the backend, and none of its requests failed
BackendUp ==
    /\ use_real => google_service
    /\ \A c \in Range(turn.calls) : c.api \in {"ok", "none"}

\* the events of the selected backend that block time
BackendEvents ==
    IF use_real THEN {ev \in google_events : ev.kind # "allday"}
    ELSE Range(mock_events)

\* the interval [s, e) overlaps an event of the set
Busy(s, e, events) == \E ev \in events : s < ev.end_time /\ e > ev.start_time

\* the reply the assistant gave last before this turn
ReplyBefore == get_last_assistant_message(turn.before)

\* C1: happy path.  In INITIAL, a booking message that yields a start and a
\* duration whose interval is free on the backend (the in-memory backend
\* included) ends the turn in CONFIRMING_BOOKING; a following "yes" ends in
\* BOOKING_COMPLETE and the backend has issued a non-null event id.
C1_HappyPath ==
    (Returned /\ BackendUp) =>
        /\ (StateBefore = "INITIAL" /\
            \E c \in CallsOf("is_time_available") :
                ~Busy(c.start_time, c.end_time, BackendEvents))
              => StateAfter = "CONFIRMING_BOOKING"
        /\ (StateBefore = "CONFIRMING_BOOKING" /\ ReplyBefore = Some("available_confirm")
             /\ turn.message.name = "Yes")
              => /\ StateAfter = "BOOKING_COMPLETE"
                 /\ \E c \in CallsOf("book_appointment") : ~IsNone(c.event_id)

\* the seeded events of the in-memory backend
Seeded == Range(generate_mock_events)

\* a turn of a session in INITIAL on the in-memory backend whose booking
\* message gave an interval that overlaps a seeded event
BusyRequest ==
    /\ Returned /\ ~use_real /\ StateBefore = "INITIAL"
    /\ \E c \in CallsOf("is_time_available") : Busy(c.start_time, c.end_time, Seeded)

\* the turn ended in SUGGESTING_SLOTS with 1 to 5 offered slots, none of
\* which overlaps a seeded event
SlotsOffered ==
    /\ StateAfter = "SUGGESTING_SLOTS"
    /\ Len(turn.response.available_slots) \in 1..5
    /\ \A slot \in Range(turn.response.available_slots) :
          ~Busy(slot.start_time, slot.end_time, Seeded)

\* C2 as the specification states it: busy path.  In INITIAL, a booking
\* message whose interval overlaps a seeded event ends the turn in
\* SUGGESTING_SLOTS with between 1 and 5 offered slots, none of which
\* overlaps a seeded event.
C2_BusyPath ==
    BusyRequest => SlotsOffered

\* the length of a business day in minutes: no longer slot exists
BusinessDayMinutes == (BusinessCloseHour - BusinessOpenHour) * 60

\* C2, amended: the busy path ends in SUGGESTING_SLOTS with between 1 and
\* 5 offered slots, none overlapping a seeded event, when the duration
\* searched for fits into a business day; a request for a longer duration
\* finds no slot and ends the turn in COLLECTING_DETAILS.
C2_BusyPathWhenSlotFits ==
    BusyRequest =>
        \E g \in CallsOf("get_availability") :
            IF g.duration_minutes \in 1..BusinessDayMinutes
            THEN SlotsOffered
            ELSE StateAfter = "COLLECTING_DETAILS"

\* a request for a time that a seeded event takes was answered with slots
C2_Witness ==
    /\ BusyRequest
    /\ turn.message.name = "july 8 at 10am"
    /\ \E g \in CallsOf("get_availability") : g.duration_minutes = 60
    /\ SlotsOffered
    /\ Len(turn.response.available_slots) = 5

\* C3: cancellation.  In CONFIRMING_BOOKING, every message that contains a
\* keyword of the negative set moves the session to INITIAL and issues no
\* create-event call in that turn.
C3_Cancellation ==
    (Returned /\ StateBefore = "CONFIRMING_BOOKING" /\
     ContainsAny(Lower(turn.message.text), negative_words))
      => /\ StateAfter = "INITIAL"
         /\ CallsOf("book_appointment") = {}

\* the message of the turn has an affirmative keyword
Affirmative == ContainsAny(Lower(turn.message.text), affirmative_words)

\* C4: commit outcome.  An affirmative reply in CONFIRMING_BOOKING ends in
\* BOOKING_COMPLETE if and only if the backend's create-event call returned
\* success in that turn, and ends in COLLECTING_DETAILS when the backend
\* reports failure or raises; no turn enters BOOKING_COMPLETE without a
\* successful create-event call.
C4_CommitOutcome ==
    Returned =>
        /\ (StateBefore = "CONFIRMING_BOOKING" /\ Affirmative) =>
              /\ StateAfter = "BOOKING_COMPLETE" <=>
                    \E c \in CallsOf("book_appointment") : c.outcome = "success"
              /\ (\E c \in CallsOf("book_appointment") : c.outcome \in {"failure", "raise"})
                    => StateAfter = "COLLECTING_DETAILS"
        /\ (StateBefore # "BOOKING_COMPLETE" /\ StateAfter = "BOOKING_COMPLETE") =>
              \E c \in CallsOf("book_appointment") : c.outcome = "success"

\* the user confirmed, the backend refused or raised, and the session went
\* back to COLLECTING_DETAILS
C4_Witness ==
    /\ Returned /\ StateBefore = "CONFIRMING_BOOKING" /\ Affirmative
    /\ \E c \in CallsOf("book_appointment") : c.outcome \in {"failure", "raise"}
    /\ StateAfter = "COLLECTING_DETAILS"

\* the limits of InputValidator
MinDuration == 15

MaxDuration == 240

\* C5: validation blocks commit.  The dialogue never issues a create-event
\* call for a draft whose duration is outside [15, 240] minutes, whose start
\* is in the past or more than 90 days ahead, or whose start is not before
\* its end.
C5_ValidationBlocksCommit ==
    \A c \in CallsOf("book_appointment") :
        /\ c.duration_minutes \in MinDuration..MaxDuration
        /\ c.start_time >= now
        /\ c.start_time <= now + 90 * DayMinutes
        /\ c.start_time < c.end_time

\* C6: in every response of process_message, requires_confirmation is true
\* if and only if the state the session holds after the turn is
\* CONFIRMING_BOOKING.
C6_RequiresConfirmation ==
    Returned =>
        (turn.response.requires_confirmation <=> StateAfter = "CONFIRMING_BOOKING")

\* a turn left the session in CONFIRMING_BOOKING and said so
C6_Witness ==
    /\ Returned
    /\ StateBefore = "SUGGESTING_SLOTS"
    /\ StateAfter = "CONFIRMING_BOOKING"
    /\ turn.response.requires_confirmation

\* C7: every process_message call returns a response with a reply text, a
\* state snapshot, an offered-slot list and a requires_confirmation flag;
\* when an exception reached the boundary, the response carries a non-null
\* error and the default snapshot (INITIAL, no draft, no slots).
C7_NoExceptionLeaves ==
    Returned =>
        /\ DOMAIN turn.response =
              {"message", "state", "available_slots", "requires_confirmation", "error"}
        /\ turn.response.requires_confirmation \in BOOLEAN
        /\ turn.raised =>
              /\ ~IsNone(turn.response.error)
              /\ turn.response.state.current_state = "INITIAL"
              /\ IsNone(turn.response.state.appointment_request)
              /\ turn.response.state.available_slots = <<>>
              /\ turn.response.available_slots = <<>>

\* an exception reached the boundary in a session that was past INITIAL and
\* held a draft, and the response was the error response
C7_Witness ==
    /\ Returned
    /\ turn.raised
    /\ StateBefore # "INITIAL"
    /\ ~IsNone(turn.before.conversation_state.appointment_request)
    /\ ~IsNone(turn.response.error)
    /\ turn.response.state.current_state = "INITIAL"

-----------------------------------------------------------------------------
(* Properties of the availability search (checked under SpecAvail)          *)

\* the last request was an availability search that reached the backend
SearchCalled ==
    /\ probe.op = "get_availability"
    /\ probe.called

\* ... and the backend searched and answered (the remote calendar, when
\* there is one, was reachable and listed its events)
SearchAnswered ==
    /\ SearchCalled
    /\ probe.status = 200
    /\ use_real => (google_service /\ probe.api = "ok")

\* the candidate slots of the searched window
Candidates ==
    Range(Google_generate_all_slots(DateOf(probe.start_date), DateOf(probe.end_date),
                                    probe.duration_minutes))

Overlaps(slot, ev) ==
    slot.start_time < ev.end_time /\ slot.end_time > ev.start_time

\* C8: a candidate slot of an answered availability search is returned if
\* and only if no timed event of the backend overlaps it (slot.start <
\* event.end and slot.end > event.start), on the in-memory backend and on
\* the Google backend alike.
C8_ConflictPredicate ==
    (SearchAnswered /\ probe.duration_minutes > 0) =>
        \A slot \in Candidates :
            (slot \in Range(probe.slots)) <=>
                ~ \E ev \in BackendEvents : Overlaps(slot, ev)

\* business hours and weekdays as the specification states them
InBusinessHours(t) == 9 * 60 <= TimeOfDay(t) /\ TimeOfDay(t) < 18 * 60

OnWeekday(t) == Weekday(DateOf(t)) \in 0..4

\* C9: every slot an availability search returns, whatever the window and
\* the requested duration, has duration_minutes = end - start, starts on a
\* weekday and starts at or after 09:00 and before 18:00.
C9_SlotShape ==
    SearchCalled =>
        \A slot \in Range(probe.slots) :
            /\ slot.duration_minutes = slot.end_time - slot.start_time
            /\ OnWeekday(slot.start_time)
            /\ InBusinessHours(slot.start_time)

\* every day from the window start's date to the window end's date is a
\* Saturday or a Sunday
NoBusinessDay ==
    \A d \in DateOf(probe.start_date)..DateOf(probe.end_date) : Weekday(d) \in {5, 6}

\* C10: an availability search over a window that contains no business day
\* returns the empty slot sequence and no error, on either backend, unless
\* the request to the remote calendar itself raises.
C10_NoBusinessDayEmpty ==
    (SearchCalled /\ NoBusinessDay /\ probe.api # "error") =>
        (probe.status = 200 /\ probe.slots = <<>>)

\* a search for one-hour slots over a weekend came back empty
C10_Witness ==
    /\ SearchCalled
    /\ NoBusinessDay
    /\ probe.duration_minutes = 60
    /\ DateOf(probe.start_date) < DateOf(probe.end_date)
    /\ probe.status = 200
    /\ probe.slots = <<>>

-----------------------------------------------------------------------------
(* Properties of slot selection and of the draft merge *)

\* the option index a message of the vocabulary names, 0 when it names none
OptionNamed(m) ==
    IF m = M_option_1 THEN 1
    ELSE IF m = M_option_6 THEN 6
    ELSE IF m = M_option_12 THEN 12
    ELSE 0

\* the slots the session offered before the turn
OfferedBefore == turn.before.conversation_state.available_slots

\* a reply to n >= 1 offered slots that names an option index above n
OutOfRangeReply ==
    /\ Returned
    /\ StateBefore = "SUGGESTING_SLOTS"
    /\ OfferedBefore # <<>>
    /\ OptionNamed(turn.message) > Len(OfferedBefore)

\* C11: out-of-range option.  In SUGGESTING_SLOTS with n offered slots, a
\* reply naming an option index greater than n selects no slot, raises no
\* error, and is handed to the merge of collect_appointment_details_with_ai
\* as new draft input.
C11_OutOfRangeOption ==
    OutOfRangeReply =>
        /\ ~turn.raised
        /\ Len(turn.path) >= 2
        /\ turn.path[1] = "handle_slot_selection"
        /\ turn.path[2] = "collect_appointment_details_with_ai"
        /\ get_last_assistant_message(After) # Some("great_choice")
-----------------------------------------------------------------------------
(* The draft merge on its own: successive turns of one session that each    *)
(* reach the merge of collect_appointment_details_with_ai, with the         *)
(* extractor configured.  probe holds the draft the merge was given, what   *)
(* it saved, and what a second run on the saved draft with the same message *)
(* and the same answer of the extractor saves.                              *)

MaxMerges == 3

\* an answer of the extractor that names a length of one hour and no time
DurationExtraction ==
    [ok |-> TRUE, start_time |-> None, end_time |-> None,
     duration |-> Some(60), title |-> None, description |-> None]

MergeMessages ==
    {M_call_3pm, M_july8_10am, M_9am_6pm, M_5_3pm, M_book_a_meeting, M_12_13pm,
     M_maybe}

\* the extractor's answer to "Book a meeting between 3-5 PM": a start and
\* an end, no duration (the second example of its prompt)
RangeExtraction ==
    [ok |-> TRUE, start_time |-> Some(At(1, 15, 0)), end_time |-> Some(At(1, 17, 0)),
     duration |-> None, title |-> Some("Meeting"), description |-> None]

MergeExtractions == {NoExtraction, LongExtraction, DurationExtraction, RangeExtraction}

\* the draft of the session: the one the last merge saved, or a new one
SessionDraft == IF probe.op = "merge" THEN probe.once ELSE NewAppointmentRequest

InitMerge ==
    /\ todayWd = 0 /\ use_real = FALSE /\ google_service = FALSE
    /\ mock_events = generate_mock_events /\ google_events = {}
    /\ sessions = [s \in SessionIds |-> NoSession]
    /\ turn = NoTurn /\ turns = 0 /\ faults = 0
    /\ probe = NoProbe
    /\ client = TRUE
    /\ now = At(0, 12, 0)
    /\ host = NoHost

\* one run of the merge that returns, on the session's draft
MergeDraft ==
    /\ turns < MaxMerges
    /\ \E m \in MergeMessages : \E x \in MergeExtractions :
          \E first \in {merge_draft(SessionDraft, m, x)} :
             /\ ~first.raised
             /\ \E again \in {merge_draft(first.req, m, x)} :
                   probe' = [op |-> "merge", draft |-> SessionDraft, message |-> m.name,
                             extraction |-> x, once |-> first.req,
                             raised_again |-> again.raised, twice |-> again.req]
    /\ turns' = turns + 1
    /\ UNCHANGED <<todayWd, use_real, google_service, mock_events, google_events,
                   sessions, turn, faults, client, now, host>>

NextMerge == MergeDraft

SpecMerge == InitMerge /\ [][NextMerge]_vars

\* C12: the draft merge is idempotent.  For every draft, message and answer
\* of the extractor, running the merge again on the draft it saved, with the
\* same message and answer, saves an equal draft (title, description, start,
\* end, duration, attendees).
C12_MergeIdempotent ==
    probe.op = "merge" => (~probe.raised_again /\ probe.twice = probe.once)
-----------------------------------------------------------------------------
(* validators.py: the validators of a draft and of a slot, called on their  *)
(* own.  probe holds the argument and the returned pair.                    *)

\* the instant max_days_ahead days from now
Horizon == now + MaxDaysAhead * DayMinutes

\* InputValidator.validate_appointment_request: [valid, error]
validate_appointment_request(request) ==
    IF IsNone(request.start_date) /\ IsNone(request.end_date)
    THEN [valid |-> FALSE, error |-> "no_date"]
    ELSE IF Truthy(request.duration_minutes) /\ Val(request.duration_minutes) < MinDuration
    THEN [valid |-> FALSE, error |-> "duration_min"]
    ELSE IF Truthy(request.duration_minutes) /\ Val(request.duration_minutes) > MaxDuration
    THEN [valid |-> FALSE, error |-> "duration_max"]
    ELSE IF ~IsNone(request.start_date) /\ ~IsNone(request.end_date)
    THEN IF Val(request.start_date) >= Val(request.end_date)
         THEN [valid |-> FALSE, error |-> "start_not_before_end"]
         ELSE IF Val(request.start_date) > Horizon
         THEN [valid |-> FALSE, error |-> "too_far"]
         ELSE IF Val(request.start_date) < now
         THEN [valid |-> FALSE, error |-> "past"]
         ELSE [valid |-> TRUE, error |-> "none"]
    ELSE [valid |-> TRUE, error |-> "none"]

\* InputValidator.validate_time_slot: [valid, error]
validate_time_slot(slot) ==
    IF slot.duration_minutes < MinDuration
    THEN [valid |-> FALSE, error |-> "duration_min"]
    ELSE IF slot.duration_minutes > MaxDuration
    THEN [valid |-> FALSE, error |-> "duration_max"]
    ELSE IF slot.start_time >= slot.end_time
    THEN [valid |-> FALSE, error |-> "start_not_before_end"]
    ELSE IF slot.start_time < now
    THEN [valid |-> FALSE, error |-> "past"]
    ELSE IF slot.start_time > Horizon
    THEN [valid |-> FALSE, error |-> "too_far"]
    ELSE [valid |-> TRUE, error |-> "none"]

\* the durations, starts and lengths the validators are called with
ValidatedDurations == {0 - 5, 0, 5, 14, 15, 16, 60, 239, 240, 241, 500}

ValidatedStarts == {At(0, 8, 0), At(1, 10, 0), At(MaxDaysAhead + 1, 10, 0)}

ValidatedLengths == {0, 60}

InitValidate ==
    /\ todayWd = 0 /\ use_real = FALSE /\ google_service = FALSE
    /\ mock_events = generate_mock_events /\ google_events = {}
    /\ sessions = [s \in SessionIds |-> NoSession]
    /\ turn = NoTurn /\ turns = 0 /\ faults = 0
    /\ probe = NoProbe
    /\ client = FALSE
    /\ now = At(0, 12, 0)
    /\ host = NoHost

ValidateRequest ==
    /\ \E d \in {None} \cup {Some(n) : n \in ValidatedDurations} :
       \E s \in {None} \cup {Some(t) : t \in ValidatedStarts} :
       \E len \in {None} \cup {Some(n) : n \in ValidatedLengths} :
          LET request == [NewAppointmentRequest EXCEPT
                            !.start_date = s,
                            !.end_date = IF IsNone(s) \/ IsNone(len) THEN None
                                         ELSE Some(Val(s) + Val(len)),
                            !.duration_minutes = d]
          IN probe' = [op |-> "validate_appointment_request", argument |-> request,
                       duration |-> d,
                       result |-> validate_appointment_request(request)]
    /\ UNCHANGED <<todayWd, use_real, google_service, mock_events, google_events,
                   sessions, turn, turns, faults, client, now, host>>

ValidateSlot ==
    /\ \E d \in ValidatedDurations : \E s \in ValidatedStarts :
       \E len \in ValidatedLengths :
          LET slot == TimeSlot(s, s + len, d)
          IN probe' = [op |-> "validate_time_slot", argument |-> slot,
                       duration |-> Some(d), result |-> validate_time_slot(slot)]
    /\ UNCHANGED <<todayWd, use_real, google_service, mock_events, google_events,
                   sessions, turn, turns, faults, client, now, host>>

NextValidate == ValidateRequest \/ ValidateSlot

SpecValidate == InitValidate /\ [][NextValidate]_vars

\* a validator has returned for an integer duration
Validated ==
    /\ probe.op \in {"validate_appointment_request", "validate_time_slot"}
    /\ ~IsNone(probe.duration)

DurationErrors == {"duration_min", "duration_max"}

\* C13: duration validation uses inclusive bounds.  For every integer
\* duration d, both validators reject d when d < 15 or d > 240, and do not
\* reject on duration when 15 <= d <= 240.
C13_DurationBounds ==
    Validated =>
        LET d == Val(probe.duration)
        IN /\ (d < MinDuration \/ d > MaxDuration) => ~probe.result.valid
           /\ (MinDuration <= d /\ d <= MaxDuration) =>
                 probe.result.error \notin DurationErrors
-----------------------------------------------------------------------------
(* A host that runs process_message calls in threads.  ConversationGraph    *)
(* holds no lock, so the statements of two calls interleave.  An AgentState *)
(* is an object: host.heap holds the objects, host.store the reference      *)
(* kept under each session id (0: the id is not in the dictionary), and a   *)
(* thread keeps the reference it read into its local variable state.        *)
(* sessions shows the object stored under each id.                          *)

MaxCalls == 3

ThreadIds == {1, 2}

HostVocabulary == {M_july8_10am, M_option_1}

IdleThread == [pc |-> "idle", session_id |-> "", message |-> "", state |-> 0]

InitHost ==
    /\ todayWd = 0 /\ use_real = FALSE /\ google_service = FALSE
    /\ mock_events = generate_mock_events /\ google_events = {}
    /\ sessions = [s \in SessionIds |-> NoSession]
    /\ turn = NoTurn /\ turns = 0 /\ faults = 0
    /\ probe = NoProbe
    /\ client = FALSE
    /\ now = At(0, 12, 0)
    /\ host = [threads |-> [t \in ThreadIds |-> IdleThread],
               store |-> [s \in SessionIds |-> 0],
               heap |-> [r \in 1..MaxCalls |-> NoSession],
               added |-> [s \in SessionIds |-> 0]]

\* one AgentState object handed out to every session
shared_state(heap) == 1

\* AgentState(): a new object, here the first reference not yet in use
fresh_state(heap) == CHOOSE r \in DOMAIN heap : heap[r] = NoSession /\
                        \A q \in DOMAIN heap : heap[q] = NoSession => r <= q

\* self.sessions as the rest of the program reads it
StoredSessions(store, heap) ==
    [s \in SessionIds |-> IF store[s] = 0 THEN NoSession ELSE heap[store[s]]]

\* AgentState.get_last_user_message, as a message of the vocabulary
get_last_user_message(state) ==
    LET idx == {i \in DOMAIN state.messages : state.messages[i].role = "user"}
        content == state.messages[CHOOSE i \in idx : \A j \in idx : j <= i].content
    IN CHOOSE m \in HostVocabulary : m.name = content

\* a step of thread t that changes the thread, the store and the heap
HostStep(t, thread, store, heap, added) ==
    /\ host' = [threads |-> [host.threads EXCEPT ![t] = thread], store |-> store,
                heap |-> heap, added |-> added]
    /\ sessions' = StoredSessions(store, heap)

\* a request arrives and thread t evaluates "session_id not in self.sessions"
Begin(t) ==
    /\ host.threads[t].pc = "idle"
    /\ turns < MaxCalls
    /\ \E session_id \in SessionIds : \E m \in HostVocabulary :
          HostStep(t, [pc |-> IF host.store[session_id] = 0 THEN "create" ELSE "fetch",
                       session_id |-> session_id, message |-> m.name, state |-> 0],
                   host.store, host.heap, host.added)
    /\ turns' = turns + 1
    /\ UNCHANGED <<todayWd, use_real, google_service, mock_events, google_events,
                   turn, faults, probe, client, now>>

\* self.sessions[session_id] = AgentState()
Create(t) ==
    LET th == host.threads[t]
        r == fresh_state(host.heap)
    IN /\ th.pc = "create"
       /\ HostStep(t, [th EXCEPT !.pc = "fetch"],
                   [host.store EXCEPT ![th.session_id] = r],
                   [host.heap EXCEPT ![r] = NewAgentState], host.added)
       /\ UNCHANGED <<todayWd, use_real, google_service, mock_events, google_events,
                      turn, turns, faults, probe, client, now>>

\* state = self.sessions[session_id]
Fetch(t) ==
    LET th == host.threads[t]
    IN /\ th.pc = "fetch"
       /\ HostStep(t, [th EXCEPT !.pc = "add", !.state = host.store[th.session_id]],
                   host.store, host.heap, host.added)
       /\ UNCHANGED <<todayWd, use_real, google_service, mock_events, google_events,
                      turn, turns, faults, probe, client, now>>

\* state.add_user_message(message)
AddUserMessage(t) ==
    LET th == host.threads[t]
    IN /\ th.pc = "add"
       /\ HostStep(t, [th EXCEPT !.pc = "route"], host.store,
                   [host.heap EXCEPT ![th.state] = add_user_message(@, th.message)],
                   [host.added EXCEPT ![th.session_id] = @ + 1])
       /\ UNCHANGED <<todayWd, use_real, google_service, mock_events, google_events,
                      turn, turns, faults, probe, client, now>>

\* the routing of the call, the handlers it runs on the object, and
\* self.sessions[session_id] = state when none of them raised
RouteAndStore(t) ==
    LET th == host.threads[t]
        ctx0 == [state |-> host.heap[th.state], mock |-> mock_events,
                 google |-> google_events, calls |-> <<>>, path |-> <<>>,
                 raised |-> FALSE]
    IN /\ th.pc = "route"
       /\ \E o \in Oracles :
          \E ctx \in {Route(ctx0, get_last_user_message(host.heap[th.state]), o)} :
             /\ HostStep(t, IdleThread,
                         IF ctx.raised THEN host.store
                         ELSE [host.store EXCEPT ![th.session_id] = th.state],
                         [host.heap EXCEPT ![th.state] = ctx.state], host.added)
             /\ mock_events' = ctx.mock
       /\ UNCHANGED <<todayWd, use_real, google_service, google_events,
                      turn, turns, faults, probe, client, now>>

NextHost ==
    \E t \in ThreadIds :
        Begin(t) \/ Create(t) \/ Fetch(t) \/ AddUserMessage(t) \/ RouteAndStore(t)

SpecHost == InitHost /\ [][NextHost]_vars

\* every call the host started has returned
Quiescent == host # NoHost /\ \A t \in ThreadIds : host.threads[t].pc = "idle"

\* the user messages in the history stored under a session id
UserMessages(session_id) ==
    IF sessions[session_id] = NoSession THEN 0
    ELSE Cardinality({i \in DOMAIN sessions[session_id].messages :
                         sessions[session_id].messages[i].role = "user"})

\* C14: no lost update in the session store.  When the host runs two
\* process_message calls for one session id in parallel (the id may be new),
\* the stored session afterwards holds the user message of every call.
C14_NoLostUpdate ==
    Quiescent => \A s \in SessionIds : UserMessages(s) = host.added[s]
\* thread t takes the step, as a call for session id s
StepsFor(t, s) ==
    /\ host.threads[t] # host'.threads[t]
    /\ s \in {host.threads[t].session_id, host'.threads[t].session_id}

\* C15: session independence.  A step of a process_message call for one
\* session id leaves the session stored under every other id (history,
\* dialogue state, draft, offered slots) as it was, however the calls of
\* the two sessions interleave.
C15_SessionIndependence ==
    [][\A b \in SessionIds :
          (\A t \in ThreadIds : ~StepsFor(t, b)) => sessions'[b] = sessions[b]]_vars

\* calls for both sessions are under way while the other session already
\* holds the reply of an earlier call
C15_Witness ==
    /\ host # NoHost
    /\ host.threads[1].pc = "route" /\ host.threads[1].session_id = "default"
    /\ host.threads[2].pc = "route" /\ host.threads[2].session_id = "other"
    /\ sessions["other"] # NoSession
    /\ ~IsNone(get_last_assistant_message(sessions["other"]))
-----------------------------------------------------------------------------
(* Properties of the history and of the availability check *)

\* the history get_conversation_history returns for a session id
HistoryOf(session) == IF session = NoSession THEN <<>> ELSE session.messages

IsPrefix(p, q) == Len(p) <= Len(q) /\ SubSeq(q, 1, Len(p)) = p

\* C16: a session's history is append-only.  Across every process_message
\* call the history before the call is a prefix of the history after it, and
\* the call adds the user's message right after that prefix.
C16_AppendOnly ==
    Returned =>
        LET old == HistoryOf(turn.before)
            new == HistoryOf(After)
        IN /\ IsPrefix(old, new)
           /\ Len(new) > Len(old)
           /\ new[Len(old) + 1] = [role |-> "user", content |-> turn.message.name]

\* a third turn has added to a history of two earlier turns
C16_Witness ==
    /\ Returned
    /\ Len(HistoryOf(turn.before)) >= 4
    /\ Len(HistoryOf(After)) >= Len(HistoryOf(turn.before)) + 2
\* two events of the in-memory calendar overlap
MockOverlap ==
    \E i, j \in DOMAIN mock_events :
        /\ i < j
        /\ mock_events[i].start_time < mock_events[j].end_time
        /\ mock_events[j].start_time < mock_events[i].end_time

\* C17: the in-memory backend checks for conflicts on commit.
\* book_appointment fails for every interval that overlaps an existing
\* event, so after any sequence of bookings no two events stored in the
\* in-memory calendar overlap.
C17_MockNoOverlap == ~MockOverlap
\* the handlers the turn entered
Entered(handler) == handler \in Range(turn.path)

\* the draft the session holds after the turn has a start and a duration
MergeFoundTimes ==
    /\ ~IsNone(After.conversation_state.appointment_request)
    /\ ~IsNone(Val(After.conversation_state.appointment_request).start_date)
    /\ ~IsNone(Val(After.conversation_state.appointment_request).duration_minutes)

\* C18: CHECKING_AVAILABILITY is never the stored state of a session at a
\* turn boundary.  Whenever the merge finds start and duration, the
\* availability check runs in the same turn, and the turn ends in
\* CONFIRMING_BOOKING, SUGGESTING_SLOTS or COLLECTING_DETAILS.
C18_CheckingNeverStored ==
    /\ \A s \in SessionIds :
          sessions[s] # NoSession =>
             sessions[s].conversation_state.current_state # "CHECKING_AVAILABILITY"
    /\ (Returned /\ ~turn.raised /\ Entered("collect_appointment_details_with_ai")
          /\ MergeFoundTimes) =>
          /\ Entered("check_availability")
          /\ StateAfter \in {"CONFIRMING_BOOKING", "SUGGESTING_SLOTS", "COLLECTING_DETAILS"}

\* the merge found the times, the check ran and found the interval free
C18_Witness ==
    /\ Returned
    /\ Entered("collect_appointment_details_with_ai")
    /\ Entered("check_availability")
    /\ MergeFoundTimes
    /\ StateAfter = "CONFIRMING_BOOKING"
\* the single-slot check of the turn: the is_time_available call
SlotChecks == CallsOf("is_time_available")

\* the backend's request for the check failed, or the check raised
CheckFailed(c) == c.outcome = "raise" \/ c.api \in {"HttpError", "error"}

\* C19: availability check outcome.  When the single-slot check reports the
\* draft's interval free, the turn ends in CONFIRMING_BOOKING; when it
\* reports busy or the backend query fails, the session moves to
\* SUGGESTING_SLOTS, slot suggestion runs in the same turn, and the turn
\* does not end in CONFIRMING_BOOKING.
C19_CheckOutcome ==
    Returned =>
        \A c \in SlotChecks :
            /\ (c.outcome = "true" /\ ~CheckFailed(c)) => StateAfter = "CONFIRMING_BOOKING"
            /\ (c.outcome = "false" \/ CheckFailed(c)) =>
                  /\ Entered("suggest_alternative_slots")
                  /\ StateAfter # "CONFIRMING_BOOKING"
\* what the availability search of the turn returned: the get_availability
\* call of suggest_alternative_slots, on the calendar it was sent to
SearchResult(c) ==
    IF use_real
    THEN Google_get_availability(google_service, google_events, c.start_time, c.end_time,
                                 c.duration_minutes,
                                 IF c.api = "none" THEN "ok" ELSE c.api)
    ELSE [raised |-> FALSE,
          slots |-> Mock_get_availability(mock_events, c.start_time, c.end_time,
                                          c.duration_minutes)]

OfferedAfter == After.conversation_state.available_slots

\* C20: slot suggestion outcome.  When the availability search returns at
\* least one slot, the first of them, at most 5, are stored as offered slots
\* and the turn ends in SUGGESTING_SLOTS; when it returns none, the turn
\* ends in COLLECTING_DETAILS.  At every turn boundary a session in
\* SUGGESTING_SLOTS holds between 1 and 5 offered slots.
C20_SuggestionOutcome ==
    /\ Returned =>
          \A c \in CallsOf("get_availability") :
              LET found == SearchResult(c)
              IN /\ (~found.raised /\ found.slots # <<>>) =>
                       /\ StateAfter = "SUGGESTING_SLOTS"
                       /\ Len(OfferedAfter) <= MaxSuggestions
                       /\ IsPrefix(OfferedAfter, found.slots)
                       /\ OfferedAfter # <<>>
                 /\ (~found.raised /\ found.slots = <<>>) =>
                       StateAfter = "COLLECTING_DETAILS"
    /\ \A s \in SessionIds :
          (sessions[s] # NoSession /\
           sessions[s].conversation_state.current_state = "SUGGESTING_SLOTS") =>
             Len(sessions[s].conversation_state.available_slots) \in 1..MaxSuggestions

\* the search found more than 5 slots and the session offers 5 of them
C20_Witness ==
    /\ Returned
    /\ \E c \in CallsOf("get_availability") :
          ~SearchResult(c).raised /\ Len(SearchResult(c).slots) > MaxSuggestions
    /\ StateAfter = "SUGGESTING_SLOTS"
    /\ Len(OfferedAfter) = MaxSuggestions
-----------------------------------------------------------------------------
(* Properties of the offered slots, of selection and of confirmation *)

\* the availability search of the turn stored the slots the session offers
SearchStored(c) ==
    /\ c.op = "get_availability"
    /\ StateAfter = "SUGGESTING_SLOTS"
    /\ get_last_assistant_message(After) = Some("alternatives")

\* C21: every offered slot lies in the search window [draft.start or now,
\* that instant + 7 days): none starts before the window start, none ends
\* after the window end, and the offered slots are in ascending start order.
C21_OfferedInWindow ==
    Returned =>
        \A c \in Range(turn.calls) :
            SearchStored(c) =>
               /\ \A i \in DOMAIN OfferedAfter :
                     /\ OfferedAfter[i].start_time >= c.start_time
                     /\ OfferedAfter[i].end_time <= c.end_time
               /\ \A i, j \in DOMAIN OfferedAfter :
                     i < j => OfferedAfter[i].start_time < OfferedAfter[j].start_time
\* the offered indices whose number occurs in the message of the turn
MatchedIndices ==
    {i \in DOMAIN OfferedBefore : Contains(Lower(turn.message.text), <<Digit[i]>>)}

\* a reply in SUGGESTING_SLOTS in which the number of an offered slot occurs
OptionReply ==
    /\ Returned
    /\ StateBefore = "SUGGESTING_SLOTS"
    /\ MatchedIndices # {}

\* the draft of the session before and after the turn
DraftBefore == Val(turn.before.conversation_state.appointment_request)

DraftAfter == Val(After.conversation_state.appointment_request)

\* C22: option selection.  In SUGGESTING_SLOTS a reply matching the 1-based
\* index of an offered slot (the lowest matching index wins) sets the draft's
\* start and end to that slot's start and end, leaves title and duration
\* unchanged, issues no backend call, and ends the turn in
\* CONFIRMING_BOOKING.
C22_OptionSelection ==
    OptionReply =>
        LET i == CHOOSE k \in MatchedIndices : \A j \in MatchedIndices : k <= j
        IN /\ ~turn.raised
           /\ DraftAfter.start_date = Some(OfferedBefore[i].start_time)
           /\ DraftAfter.end_date = Some(OfferedBefore[i].end_time)
           /\ DraftAfter.title = DraftBefore.title
           /\ DraftAfter.duration_minutes = DraftBefore.duration_minutes
           /\ turn.calls = <<>>
           /\ StateAfter = "CONFIRMING_BOOKING"

\* a reply in which the numbers of several offered slots occur was answered
C22_Witness ==
    /\ OptionReply
    /\ Cardinality(MatchedIndices) >= 2
    /\ get_last_assistant_message(After) = Some("great_choice")
\* a reply in CONFIRMING_BOOKING with no keyword of either set
UnclearReply ==
    /\ Returned
    /\ StateBefore = "CONFIRMING_BOOKING"
    /\ ~Affirmative
    /\ ~ContainsAny(Lower(turn.message.text), negative_words)

\* C23: in CONFIRMING_BOOKING a message containing neither an affirmative
\* nor a negative keyword leaves the session in CONFIRMING_BOOKING, leaves
\* the draft and the offered slots unchanged, and issues no backend call.
C23_UnclearReply ==
    UnclearReply =>
        /\ ~turn.raised
        /\ StateAfter = "CONFIRMING_BOOKING"
        /\ After.conversation_state.appointment_request
              = turn.before.conversation_state.appointment_request
        /\ OfferedAfter = OfferedBefore
        /\ turn.calls = <<>>

\* a reply with a time in it was answered with the re-prompt while slots
\* were on offer
C23_Witness ==
    /\ UnclearReply
    /\ turn.message = M_call_3pm
    /\ OfferedBefore # <<>>
    /\ get_last_assistant_message(After) = Some("unclear")
\* C24: after BOOKING_COMPLETE any further message is handled by the
\* contextual/unknown handler, and the session's stored state is not reset:
\* it is still BOOKING_COMPLETE after that turn.
C24_CompleteNotReset ==
    (Returned /\ StateBefore = "BOOKING_COMPLETE") =>
        /\ turn.path[1] = "handle_contextual_response"
        /\ StateAfter = "BOOKING_COMPLETE"
\* the classification the turn stored
IntentOf == After.intent_result

\* a turn of a session in INITIAL
InitialTurn == Returned /\ StateBefore = "INITIAL"

\* the classification sends the turn to a canned or contextual answer
NoBookingIntent ==
    IsNone(IntentOf) \/ Val(IntentOf) \in {"GREETING", "HELP", "UNKNOWN"}

\* C25: in INITIAL a message classified GREETING, HELP or UNKNOWN (or with
\* no classification result) leaves the session in INITIAL, does not create
\* or change the draft or the offered slots, and issues no calendar backend
\* call; only BOOK_APPOINTMENT or CHECK_AVAILABILITY enters draft
\* collection.
C25_InitialRouting ==
    InitialTurn =>
        /\ NoBookingIntent =>
              /\ ~turn.raised
              /\ StateAfter = "INITIAL"
              /\ After.conversation_state.appointment_request
                    = turn.before.conversation_state.appointment_request
              /\ OfferedAfter = OfferedBefore
              /\ turn.calls = <<>>
        /\ Entered("collect_appointment_details_with_ai") =>
              /\ ~IsNone(IntentOf)
              /\ Val(IntentOf) \in {"BOOK_APPOINTMENT", "CHECK_AVAILABILITY"}

\* a message with a time in it that the classifier called a greeting was
\* answered with the greeting
C25_Witness ==
    /\ InitialTurn
    /\ IntentOf = Some("GREETING")
    /\ turn.message = M_july8_10am
    /\ get_last_assistant_message(After) = Some("greeting")
\* the session stored by the turn has a draft with start, end and duration
FullDraftAfter ==
    /\ Returned
    /\ ~IsNone(After.conversation_state.appointment_request)
    /\ ~IsNone(DraftAfter.start_date)
    /\ ~IsNone(DraftAfter.end_date)
    /\ ~IsNone(DraftAfter.duration_minutes)

\* C26: draft invariant.  At every turn boundary a draft that has start, end
\* and duration satisfies end - start = duration minutes (an explicitly
\* supplied end re-derives the duration, and a start that changes without
\* an explicit end recomputes the end as start + duration).
C26_DraftInvariant ==
    FullDraftAfter =>
        Val(DraftAfter.end_date) - Val(DraftAfter.start_date)
            = Val(DraftAfter.duration_minutes)
\* C27: the draft's duration takes the default of 60 minutes only when the
\* draft has no end instant after the merge; a draft whose end was supplied
\* never carries the default 60 unless 60 is end - start.  Stated for the
\* merge into a new draft when the extractor names no duration, where a
\* duration of 60 can only be the default.
C27_DefaultDuration ==
    (/\ probe.op = "merge"
     /\ probe.draft = NewAppointmentRequest
     /\ ~(probe.extraction.ok /\ Truthy(probe.extraction.duration))
     /\ ~IsNone(probe.once.start_date)
     /\ ~IsNone(probe.once.end_date)
     /\ probe.once.duration_minutes = Some(DefaultDuration))
        => Val(probe.once.end_date) - Val(probe.once.start_date) = DefaultDuration
\* a field of the draft after the extraction of the probed merge: the
\* extractor's value when it gave one, the draft's value otherwise
AfterExtraction(field, given, present) ==
    IF probe.extraction.ok /\ present THEN given ELSE probe.draft[field]

\* a text that is neither None nor empty
HasText(x) == ~IsNone(x) /\ Val(x) # ""

StartAfterExtraction ==
    AfterExtraction("start_date", probe.extraction.start_time,
                    ~IsNone(probe.extraction.start_time))

CallCount(op) == Cardinality({i \in DOMAIN turn.calls : turn.calls[i].op = op})

\* C29: no automatic retry.  Within one turn the dialogue issues at most one
\* single-slot availability query, at most one availability search and at
\* most one create-event call; a failed backend call is followed by a reply
\* and a state transition, not by a repeat of the same call.
C29_NoRetry ==
    Returned =>
        /\ CallCount("is_time_available") <= 1
        /\ CallCount("get_availability") <= 1
        /\ CallCount("book_appointment") <= 1
        /\ (\E i \in DOMAIN turn.calls : turn.calls[i].outcome \in {"failure", "raise"}) =>
              /\ ~turn.raised
              /\ Len(After.messages) >= Len(turn.before.messages) + 2
              /\ After.messages[Len(After.messages)].role = "assistant"
              /\ StateAfter \in {"SUGGESTING_SLOTS", "COLLECTING_DETAILS"}

\* a create-event call that did not succeed was the only call of its turn
C29_Witness ==
    /\ Returned
    /\ \E c \in CallsOf("book_appointment") : c.outcome \in {"failure", "raise"}
    /\ Len(turn.calls) = 1
    /\ StateAfter = "COLLECTING_DETAILS"
-----------------------------------------------------------------------------
(* The collaborators failing.  Each turn is run twice on the same session   *)
(* and the same backend: once with the OpenAI client configured and every   *)
(* call to it failing, once with no client configured.  probe holds the     *)
(* outcome of the first run; the second run is the one the session keeps.   *)

MaxTurnsFallback == 3

FallbackVocabulary ==
    {M_call_3pm, M_july8_10am, M_12_13pm, M_yes, M_no, M_option_1, M_maybe}

\* every call to the OpenAI client raises or returns no JSON
FailingOracle(first, second) ==
    [first |-> first, second |-> second, ai_intent |-> "fallback",
     ai_extract |-> NoExtraction, ai_reply |-> "raise"]

\* process_message on the default session with every call to the client
\* failing.  With the client configured the outcome is kept aside and the
\* client is taken away; the same call with no client configured is the
\* one whose outcome is stored, and the client is then configured again.
RunTurn ==
    /\ turns < MaxTurnsFallback
    /\ \E m \in (IF client THEN FallbackVocabulary ELSE {probe.message}) :
       \E f \in (IF client THEN RemoteOutcomes ELSE {probe.first}) :
       \E s \in (IF client THEN RemoteOutcomes ELSE {probe.second}) :
          LET before == IF sessions["default"] = NoSession THEN NewAgentState
                        ELSE sessions["default"]
              ctx0 == [state |-> add_user_message(before, m.name),
                       mock |-> mock_events, google |-> google_events,
                       calls |-> <<>>, path |-> <<>>, raised |-> FALSE]
          IN /\ (f # "ok" \/ s # "ok") => faults < MaxFaults
             /\ \E ctx \in {Route(ctx0, m, FailingOracle(f, s))} :
                   IF client
                   THEN /\ probe' = [op |-> "configured", message |-> m, first |-> f,
                                     second |-> s, state |-> ctx.state,
                                     calls |-> ctx.calls, raised |-> ctx.raised,
                                     response |-> Response(ctx)]
                        /\ UNCHANGED <<sessions, mock_events, google_events, turn,
                                       turns, faults>>
                   ELSE /\ probe' = [probe EXCEPT !.op = "compared"]
                        /\ sessions' = [sessions EXCEPT !["default"] = ctx.state]
                        /\ mock_events' = ctx.mock
                        /\ google_events' = ctx.google
                        /\ turn' = [session_id |-> "default", message |-> m,
                                    before |-> before, calls |-> ctx.calls,
                                    path |-> ctx.path, raised |-> ctx.raised,
                                    response |-> Response(ctx)]
                        /\ turns' = turns + 1
                        /\ faults' = faults + FailedRequests(ctx.calls)
    /\ client' = ~client
    /\ UNCHANGED <<todayWd, use_real, google_service, now, host>>

NextFallback == RunTurn

SpecFallback == InitAI /\ [][NextFallback]_vars

\* both runs of a turn have returned
BothRan == probe.op = "compared"

-----------------------------------------------------------------------------
(* The draft merge on an output of the extractor that is malformed.  The    *)
(* draft's duration_minutes is an int in every other part of the model; a   *)
(* duration that line 220 stored as text is told by the flag text.          *)

MaxExtracts == 2

\* the malformed outputs: text that is no JSON, a JSON list, an object whose
\* start_time is no ISO string, an object whose duration is text
MalformedOutputs == {"no_json", "not_object", "bad_start", "bad_duration"}

\* lines 205-228 on a malformed output: json.loads fails and the extractor
\* returns {} (345-349); .get on a list raises and the outer except takes it
\* (227); fromisoformat fails and the inner except passes (211-214); the
\* text of 'duration' is truthy and stored (219-220)
apply_output(req, y) ==
    [req |-> req, text |-> y = "bad_duration"]

\* apply_output storing nothing
apply_output_nothing(req, y) ==
    [req |-> req, text |-> FALSE]

\* lines 201-282 on a malformed output: [raised, req, text]
merge_output(appointment_request, m, y) ==
    LET a == apply_output(appointment_request, y)
        times == FallbackTimes(a.req, m)
    IN IF times.raised THEN [raised |-> TRUE, req |-> times.req, text |-> a.text]
       ELSE LET \* lines 236-239 replace the duration when they parse a range
                ranged == IsNone(a.req.start_date) /\ ~IsNone(times.req.end_date)
                          /\ times.req.end_date # a.req.end_date
                text == a.text /\ ~ranged
                req == FallbackTitle(IF text THEN times.req
                                     ELSE FallbackDuration(times.req, m), m)
            IN IF ~IsNone(req.start_date) /\ IsNone(req.end_date)
               THEN IF text
                    \* line 276: timedelta(minutes=<str>) raises TypeError
                    THEN [raised |-> TRUE, req |-> req, text |-> TRUE]
                    ELSE [raised |-> FALSE, text |-> FALSE,
                          req |-> [req EXCEPT !.end_date =
                                     Some(Val(req.start_date) + Val(req.duration_minutes))]]
               ELSE [raised |-> FALSE, req |-> req, text |-> text]

\* the draft of the session: the one the last merge saved, or a new one
ExtractDraft ==
    IF probe.op = "extract" /\ ~probe.raised /\ ~probe.text
    THEN probe.saved ELSE NewAppointmentRequest

\* one run of the merge on a malformed output of the extractor
ExtractMalformed ==
    /\ turns < MaxExtracts
    /\ \E m \in MergeMessages : \E y \in MalformedOutputs :
          \E merged \in {merge_output(ExtractDraft, m, y)} :
             probe' = [op |-> "extract", draft |-> ExtractDraft, message |-> m.name,
                       output |-> y, saved |-> merged.req, text |-> merged.text,
                       raised |-> merged.raised,
                       nothing |-> merge_draft(ExtractDraft, m, NoExtraction)]
    /\ turns' = turns + 1
    /\ UNCHANGED <<todayWd, use_real, google_service, mock_events, google_events,
                   sessions, turn, faults, client, now, host>>

NextExtract == ExtractMalformed

SpecExtract == InitMerge /\ [][NextExtract]_vars

\* C31: malformed extractor output (unparseable text, a non-object value, a
\* field of the wrong type) is treated as nothing extracted: the draft the
\* merge saves is the one it saves when nothing was extracted, no field
\* holds the malformed value, and no exception leaves the merge that the
\* merge without extraction does not raise.
C31_MalformedIsNothing ==
    probe.op = "extract" =>
        /\ probe.raised = probe.nothing.raised
        /\ ~probe.text
        /\ ~probe.raised => probe.saved = probe.nothing.req
-----------------------------------------------------------------------------
(* Properties of the writes, of the stored state and of the history         *)

\* an interval on a weekday, inside 09:00-18:00 of one day
InsideBusinessHours(s, e) ==
    /\ OnWeekday(s)
    /\ DateOf(s) = DateOf(e) \/ e = (DateOf(s) + 1) * DayMinutes
    /\ s < e
    /\ BusinessOpenHour * 60 <= TimeOfDay(s)
    /\ e - DateOf(s) * DayMinutes <= BusinessCloseHour * 60

\* C32: business hours are enforced before any write: every event created
\* through the dialogue lies on a weekday and fully inside business hours
\* (09:00-18:00); a booking request outside them is rejected without adding
\* an event.
C32_BusinessHoursBeforeWrite ==
    Returned =>
        \A c \in CallsOf("book_appointment") :
            c.outcome = "success" => InsideBusinessHours(c.start_time, c.end_time)
\* the dialogue on messages with a time range, one of them with an end that
\* is not after its start
RangeVocabulary == {M_5_3pm, M_9am_6pm, M_option_1, M_yes, M_no}

TurnRange ==
    TurnOf(RangeVocabulary, MaxTurns)

NextRange ==
    \/ TurnRange
    \/ Reset

SpecRange == Init /\ [][NextRange]_vars

\* C33: the Time Slot invariant holds for every slot a session stores as
\* offered: end = start + duration and start < end, for every draft
\* duration the dialogue can produce (including a duration derived from a
\* parsed time range whose end is not after its start).
C33_OfferedSlotInvariant ==
    Returned =>
        \A i \in DOMAIN OfferedAfter :
            /\ OfferedAfter[i].end_time
                  = OfferedAfter[i].start_time + OfferedAfter[i].duration_minutes
            /\ OfferedAfter[i].start_time < OfferedAfter[i].end_time
\* C34: the dialogue issues a create-event call only in a turn that started
\* in CONFIRMING_BOOKING and whose message contains an affirmative keyword;
\* no turn that starts in INITIAL, COLLECTING_DETAILS, SUGGESTING_SLOTS or
\* BOOKING_COMPLETE writes to the calendar.
C34_WriteOnlyOnConfirmation ==
    Returned =>
        /\ CallsOf("book_appointment") # {} =>
              /\ StateBefore = "CONFIRMING_BOOKING"
              /\ Affirmative
        /\ StateBefore # "CONFIRMING_BOOKING" =>
              \A i \in DOMAIN turn.calls :
                  turn.calls[i].op \in {"is_time_available", "get_availability"}

\* a create-event call was issued, on an affirmative reply in
\* CONFIRMING_BOOKING of a session that had been offered slots
C34_Witness ==
    /\ Returned
    /\ CallsOf("book_appointment") # {}
    /\ StateBefore = "CONFIRMING_BOOKING"
    /\ Affirmative
    /\ OfferedBefore # <<>>
\* C35: the state snapshot returned by process_message equals the state
\* stored for the session after that turn, including on the error path:
\* after a turn answered with the error response and a default INITIAL
\* snapshot, the stored session is in INITIAL with no draft and no offered
\* slots.
C35_SnapshotIsStored ==
    Returned =>
        /\ turn.response.state = After.conversation_state
        /\ turn.raised =>
              /\ StateAfter = "INITIAL"
              /\ IsNone(After.conversation_state.appointment_request)
              /\ OfferedAfter = <<>>
\* C36: the offered-slot list of a session is written only by a slot
\* suggestion that found at least one slot, and is never cleared: once a
\* session has offered slots, every later response of that session (after
\* selection, confirmation, cancellation, commit failure, booking
\* completion, a suggestion that found nothing) carries a non-empty
\* offered-slot list of at most 5 entries.
C36_OfferedNeverCleared ==
    Returned =>
        /\ OfferedAfter # OfferedBefore =>
              /\ Entered("suggest_alternative_slots")
              /\ \E c \in CallsOf("get_availability") : c.outcome = "slots"
              /\ OfferedAfter # <<>>
        /\ OfferedBefore # <<>> =>
              /\ OfferedAfter # <<>>
              /\ turn.response.available_slots # <<>>
              /\ Len(turn.response.available_slots) <= MaxSuggestions

\* a session that had offered slots booked, and the response of the booking
\* still carried them
C36_Witness ==
    /\ Returned
    /\ OfferedBefore # <<>>
    /\ StateAfter = "BOOKING_COMPLETE"
    /\ turn.response.available_slots = OfferedBefore
\* the title, start, end and duration of a draft
Request(draft) ==
    <<draft.title, draft.start_date, draft.end_date, draft.duration_minutes>>

\* the request ended in this turn: cancelled at CONFIRMING_BOOKING, or booked
RequestEnded ==
    /\ Returned
    /\ StateBefore = "CONFIRMING_BOOKING"
    /\ \/ get_last_assistant_message(After) = Some("cancelled")
       \/ StateAfter = "BOOKING_COMPLETE"

\* a booking-intent message arrived in a session whose request had ended
\* and whose draft was kept
NextRequest ==
    /\ Returned
    /\ StateBefore = "INITIAL"
    /\ ~IsNone(turn.before.conversation_state.appointment_request)
    /\ Entered("collect_appointment_details_with_ai")
    /\ ~turn.raised

\* C37: the draft survives the end of a request.  Cancelling at
\* CONFIRMING_BOOKING and reaching BOOKING_COMPLETE both leave the draft's
\* title, start, end and duration unchanged, and the next booking-intent
\* message in that session merges into that same draft rather than a fresh
\* one: without an extractor the start, end, duration and title it held
\* are the ones the merge saves.
C37_DraftSurvives ==
    /\ RequestEnded =>
          /\ ~IsNone(After.conversation_state.appointment_request)
          /\ Request(DraftAfter) = Request(DraftBefore)
    /\ NextRequest =>
          /\ ~IsNone(After.conversation_state.appointment_request)
          /\ Request(DraftAfter) = Request(DraftBefore)

\* after a cancellation a message naming another time was merged into the
\* kept draft, whose start stayed
C37_Witness ==
    /\ NextRequest
    /\ ReplyBefore = Some("cancelled")
    /\ ~IsNone(turn.message.fuzzy)
    /\ turn.message.fuzzy # DraftBefore.start_date
    /\ DraftAfter.start_date = DraftBefore.start_date
\* the messages the turn appended to the history of its session
Appended ==
    SubSeq(HistoryOf(After), Len(HistoryOf(turn.before)) + 1,
           Len(HistoryOf(After)))

\* C38: every turn that does not end in the error response appends exactly
\* one user message followed by at least one assistant message, and the
\* reply text returned is the last assistant message appended during that
\* same turn, never a message of an earlier turn.
C38_ReplyOfThisTurn ==
    (Returned /\ ~turn.raised) =>
        /\ IsPrefix(HistoryOf(turn.before), HistoryOf(After))
        /\ Len(Appended) >= 2
        /\ Appended[1].role = "user"
        /\ \A i \in 2..Len(Appended) : Appended[i].role = "assistant"
        /\ turn.response.message = Appended[Len(Appended)].content
\* the calls from one handler to the next that nodes.py holds
HandlerCalls ==
    {<<"handle_slot_selection", "collect_appointment_details_with_ai">>,
     <<"collect_appointment_details_with_ai", "check_availability">>,
     <<"check_availability", "suggest_alternative_slots">>,
     <<"check_availability", "collect_appointment_details_with_ai">>,
     <<"confirm_booking", "book_appointment">>,
     <<"book_appointment", "collect_appointment_details_with_ai">>,
     <<"handle_contextual_response", "handle_unknown_intent">>}

\* handler a called handler b in the turn
Called(a, b) ==
    \E i \in 1..(Len(turn.path) - 1) : turn.path[i] = a /\ turn.path[i + 1] = b

\* the session held a draft with a start when the message arrived
StartBefore ==
    /\ ~IsNone(turn.before.conversation_state.appointment_request)
    /\ ~IsNone(DraftBefore.start_date)

\* C39: every turn terminates.  The handlers that call each other within
\* one turn form a finite chain with no cycle: the chain of a turn has at
\* most five handlers, each called by the one before it, none entered
\* twice, and the availability check and the booking hand the turn back to
\* the detail collection only when the draft has no start.
C39_FiniteChain ==
    Returned =>
        /\ Len(turn.path) \in 1..5
        /\ \A i \in 1..(Len(turn.path) - 1) :
              <<turn.path[i], turn.path[i + 1]>> \in HandlerCalls
        /\ \A i, j \in 1..Len(turn.path) : turn.path[i] = turn.path[j] => i = j
        /\ (\/ Called("book_appointment", "collect_appointment_details_with_ai")
            \/ Called("check_availability", "collect_appointment_details_with_ai"))
              => ~StartBefore

\* a reply to offered slots that names none of them runs the chain slot
\* selection, detail collection, availability check, slot suggestion
C39_Witness ==
    /\ Returned
    /\ ~turn.raised
    /\ turn.path = <<"handle_slot_selection", "collect_appointment_details_with_ai",
                     "check_availability", "suggest_alternative_slots">>
=============================================================================
